---- MODULE Spec2Model ----
(***************************************************************************)
(* Model of the NFO dashboard backend: the batch planner                   *)
(* (RealtimeMarketDataManager.batch_tokens), one acquisition cycle         *)
(* (fetch_and_store_realtime_data), the acquisition loops                  *)
(* (run_pipeline / run_realtime_monitoring / run_monitor), the Quote Store *)
(* upsert (store_realtime_market_data) and the Token Store replacement     *)
(* (DBManager.store_tokens).                                               *)
(*                                                                         *)
(* A Python dict is modelled as a sequence of [exchange, tokens] entries   *)
(* with distinct keys, in insertion order.                                 *)
(***************************************************************************)
EXTENDS Integers, Sequences, FiniteSets, TLC

\* ------------------------------------------------------------------------
\* Bounds of the model
\* ------------------------------------------------------------------------
MaxListLen == 4
MaxPerRequest == 3

\* ------------------------------------------------------------------------
\* Small helpers
\* ------------------------------------------------------------------------
Min(a, b) == IF a <= b THEN a ELSE b

Abs(x) == IF x < 0 THEN -x ELSE x

Range(s) == {s[i] : i \in DOMAIN s}

RECURSIVE SeqsUpTo(_, _)
SeqsUpTo(S, n) ==
    IF n = 0 THEN {<<>>}
    ELSE LET shorter == SeqsUpTo(S, n - 1)
         IN shorter \cup {Append(s, x) : s \in {t \in shorter : Len(t) = n - 1}, x \in S}

\* ------------------------------------------------------------------------
\* State
\* ------------------------------------------------------------------------
VARIABLES
    max_tokens_per_request, \* self.max_tokens_per_request
    exchange_tokens,        \* argument of batch_tokens
    batches,                \* value returned by batch_tokens
    bt_pc,                  \* position of the batch planner run: "idle" | "input" | "done"
    cfg,                    \* command line / config.yaml settings, fixed for a run
    running,                \* the global flag `running`
    now,                    \* time of day read by datetime.now(), in seconds
    db_now,                 \* instant shown by the database's CURRENT_TIMESTAMP
    pc,                     \* position of the pipeline / monitor process
    token_master,           \* table token_master, rows in table order
    realtime_market_data,   \* table realtime_market_data, a set of rows
    wait_seconds,           \* local of wait_until_market_open
    waited,                 \* local of wait_until_market_open
    iterations,             \* local of run_realtime_monitoring / run_monitor
    sleep_i,                \* index of the `for _ in range(refresh_interval)` loop
    results,                \* local of fetch_and_store_realtime_data
    futures_data,           \* local of fetch_and_store_realtime_data
    pending,                \* batches of the running for-loop not yet processed
    calls,                  \* history: the provider calls of the current cycle
    prev_calls,             \* history: the provider calls of the cycle before
    inserted,               \* history: the records of the INSERTs executed so far
    store_calls,            \* number of store_realtime_market_data / store_tokens calls
    store_result,           \* what the last store call returned: "none" | "True" | "False"
    tokens_data,            \* argument of store_tokens
    old_master,             \* history: token_master when store_tokens was called
    faults,                 \* history: abnormal provider / database outcomes so far
    tokens_df,              \* self.tokens_df, the catalog fetched by fetch_tokens
    futures_df,             \* local of process_and_store_tokens
    options_df,             \* local of process_and_store_tokens
    equity_df,              \* local of process_and_store_tokens
    refresh_result,         \* what process_and_store_tokens returned
    atm_options,            \* what get_atm_options_tokens returned
    hard_refresh,           \* argument of needs_token_refresh
    created_at,             \* column created_at of token_master, one value per row
    pre_market_start_str,   \* market.pre_market.start of config.yaml, as text
    current_date,           \* datetime.now().date(), as a day number
    needs_refresh,          \* what needs_token_refresh returned: "none" | "True" | "False"
    start_time,             \* local of the monitoring loop: time.time() before the cycle
    elapsed_time,           \* local of run_realtime_monitoring / run_monitor
    cycle_iteration,        \* history: the value of iterations when the last cycle started
    db_file,                \* the file at db_path: "absent" | "good" | "corrupt"
    conn,                   \* self.conn of the DBManager: "none" | "open" | "closed"
    recoveries              \* history: the times _handle_corrupted_database removed the file

batchVars == <<exchange_tokens, batches, bt_pc>>

cycleVars == <<results, futures_data, pending, calls, prev_calls>>

loopVars == <<wait_seconds, waited, iterations, sleep_i>>

storeVars == <<inserted, store_calls, store_result, tokens_data, old_master>>

resolverVars == <<tokens_df, futures_df, options_df, equity_df, refresh_result, atm_options>>

refreshCheckVars == <<hard_refresh, created_at, pre_market_start_str, current_date, needs_refresh>>

paceVars == <<start_time, elapsed_time, cycle_iteration>>

openVars == <<db_file, conn, recoveries>>

vars == <<max_tokens_per_request, exchange_tokens, batches, bt_pc, cfg, running, now,
          db_now, pc, token_master, realtime_market_data, wait_seconds, waited,
          iterations, sleep_i, results, futures_data, pending, calls, prev_calls,
          inserted, store_calls, store_result, tokens_data, old_master, faults,
          tokens_df, futures_df, options_df, equity_df, refresh_result, atm_options,
          hard_refresh, created_at, pre_market_start_str, current_date, needs_refresh,
          start_time, elapsed_time, cycle_iteration,
          db_file, conn, recoveries>>

\* ------------------------------------------------------------------------
\* batch_tokens
\* ------------------------------------------------------------------------
Exchanges == {"NSE", "NFO"}

TokenIds == {1, 2}

DictKeys(d) == {d[i].exchange : i \in DOMAIN d}

\* d.get(exchange, [])
DictGetOrEmpty(d, exchange) ==
    IF exchange \in DictKeys(d)
    THEN d[CHOOSE j \in DOMAIN d : d[j].exchange = exchange].tokens
    ELSE <<>>

\* sum(len(tokens) for tokens in d.values())
RECURSIVE TokenCount(_)
TokenCount(d) ==
    IF d = <<>> THEN 0 ELSE Len(Head(d).tokens) + TokenCount(Tail(d))

\* [tokens[i:i + m] for i in range(0, len(tokens), m)]
Chunks(tokens, m) ==
    LET n == (Len(tokens) + m - 1) \div m
    IN [k \in 1..n |-> SubSeq(tokens, (k - 1) * m + 1, Min(k * m, Len(tokens)))]

\* if exchange not in current_batch: current_batch[exchange] = []
\* current_batch[exchange].extend(token_batch)
DictExtend(d, exchange, token_batch) ==
    IF exchange \in DictKeys(d)
    THEN [i \in DOMAIN d |->
            IF d[i].exchange = exchange
            THEN [exchange |-> exchange, tokens |-> d[i].tokens \o token_batch]
            ELSE d[i]]
    ELSE Append(d, [exchange |-> exchange, tokens |-> token_batch])

\* AddChunk with the limit test ignoring the size of the chunk being added
AddChunk_NoLenInTest(st, exchange, token_batch, m) ==
    IF st.current_count <= m
    THEN [batches |-> st.batches,
          current_batch |-> DictExtend(st.current_batch, exchange, token_batch),
          current_count |-> st.current_count + Len(token_batch)]
    ELSE [batches |-> IF st.current_batch # <<>>
                      THEN Append(st.batches, st.current_batch)
                      ELSE st.batches,
          current_batch |-> <<[exchange |-> exchange, tokens |-> token_batch]>>,
          current_count |-> Len(token_batch)]

\* AddChunk that starts a new batch without keeping the full one
AddChunk_DropsFullBatch(st, exchange, token_batch, m) ==
    IF st.current_count + Len(token_batch) <= m
    THEN [batches |-> st.batches,
          current_batch |-> DictExtend(st.current_batch, exchange, token_batch),
          current_count |-> st.current_count + Len(token_batch)]
    ELSE [batches |-> st.batches,
          current_batch |-> <<[exchange |-> exchange, tokens |-> token_batch]>>,
          current_count |-> Len(token_batch)]

\* body of the inner loop of batch_tokens for one token_batch
AddChunk(st, exchange, token_batch, m) ==
    IF st.current_count + Len(token_batch) <= m
    THEN [batches |-> st.batches,
          current_batch |-> DictExtend(st.current_batch, exchange, token_batch),
          current_count |-> st.current_count + Len(token_batch)]
    ELSE [batches |-> IF st.current_batch # <<>>
                      THEN Append(st.batches, st.current_batch)
                      ELSE st.batches,
          current_batch |-> <<[exchange |-> exchange, tokens |-> token_batch]>>,
          current_count |-> Len(token_batch)]

RECURSIVE AddChunks(_, _, _, _)
AddChunks(st, exchange, chunks, m) ==
    IF chunks = <<>> THEN st
    ELSE AddChunks(AddChunk(st, exchange, Head(chunks), m), exchange, Tail(chunks), m)

RECURSIVE AddExchanges(_, _, _)
AddExchanges(st, d, m) ==
    IF d = <<>> THEN st
    ELSE AddExchanges(AddChunks(st, Head(d).exchange, Chunks(Head(d).tokens, m), m),
                      Tail(d), m)

BatchTokens(d, m) ==
    LET st == AddExchanges([batches |-> <<>>, current_batch |-> <<>>, current_count |-> 0],
                           d, m)
    IN IF st.current_batch # <<>> THEN Append(st.batches, st.current_batch) ELSE st.batches

\* ------------------------------------------------------------------------
\* Token Store: table token_master and its queries
\* ------------------------------------------------------------------------
Null == -1

\* underlying names in the collation order used by ORDER BY name / groupby
NameOrder == <<"ACC", "NIFTY">>

NameRank(name) == CHOOSE i \in DOMAIN NameOrder : NameOrder[i] = name

TokenRow(token, symbol, name, exch_seg, token_type, strike, strike_distance) ==
    [token |-> token, symbol |-> symbol, name |-> name, exch_seg |-> exch_seg,
     token_type |-> token_type, strike |-> strike, strike_distance |-> strike_distance]

\* one underlying: a future, its equity and two call strikes
SmallStore ==
    << TokenRow(1, "FUT", "ACC", "NFO", "FUTURES", Null, Null),
       TokenRow(2, "EQ", "ACC", "NSE", "EQUITY", 0, Null),
       TokenRow(3, "CE", "ACC", "NFO", "OPTIONS", 100, 10),
       TokenRow(4, "CE", "ACC", "NFO", "OPTIONS", 120, 10) >>

\* two underlyings, calls and puts, one underlying without strike_distance
RichStore ==
    << TokenRow(1, "FUT", "ACC", "NFO", "FUTURES", Null, Null),
       TokenRow(5, "FUT", "NIFTY", "NFO", "FUTURES", Null, Null),
       TokenRow(2, "EQ", "ACC", "NSE", "EQUITY", 0, Null),
       TokenRow(6, "PE", "NIFTY", "NFO", "OPTIONS", 120, Null),
       TokenRow(4, "CE", "ACC", "NFO", "OPTIONS", 120, 10),
       TokenRow(3, "CE", "ACC", "NFO", "OPTIONS", 100, 10),
       TokenRow(7, "PE", "ACC", "NFO", "OPTIONS", 100, 10) >>

\* the rows of a sequence that satisfy a test, in order
RECURSIVE RowsOfType(_, _)
RowsOfType(rows, token_type) ==
    IF rows = <<>> THEN <<>>
    ELSE IF Head(rows).token_type = token_type
         THEN <<Head(rows)>> \o RowsOfType(Tail(rows), token_type)
         ELSE RowsOfType(Tail(rows), token_type)

\* query += f" LIMIT {limit}"
Limit(rows, limit) ==
    IF limit = Null THEN rows ELSE SubSeq(rows, 1, Min(limit, Len(rows)))

\* ORDER BY name, strike
OptionBefore(r1, r2) ==
    \/ NameRank(r1.name) < NameRank(r2.name)
    \/ NameRank(r1.name) = NameRank(r2.name) /\ r1.strike < r2.strike

RECURSIVE InsertSorted(_, _)
InsertSorted(sorted, r) ==
    IF sorted = <<>> THEN <<r>>
    ELSE IF OptionBefore(r, Head(sorted))
         THEN <<r>> \o sorted
         ELSE <<Head(sorted)>> \o InsertSorted(Tail(sorted), r)

RECURSIVE OrderByNameStrike(_)
OrderByNameStrike(rows) ==
    IF rows = <<>> THEN <<>>
    ELSE InsertSorted(OrderByNameStrike(SubSeq(rows, 1, Len(rows) - 1)), rows[Len(rows)])

GetEquityTokens(tm, limit) == Limit(RowsOfType(tm, "EQUITY"), limit)

GetFuturesTokens(tm, limit) == Limit(RowsOfType(tm, "FUTURES"), limit)

GetOptionsTokens(tm, limit) == Limit(OrderByNameStrike(RowsOfType(tm, "OPTIONS")), limit)

\* prepare_exchange_tokens: group the tokens by exch_seg, first appearance first
RECURSIVE PrepareExchangeTokens(_)
PrepareExchangeTokens(rows) ==
    IF rows = <<>> THEN <<>>
    ELSE LET r == rows[Len(rows)]
         IN DictExtend(PrepareExchangeTokens(SubSeq(rows, 1, Len(rows) - 1)),
                       r.exch_seg, <<r.token>>)

\* ------------------------------------------------------------------------
\* ATM Selector: get_atm_options_tokens
\* ------------------------------------------------------------------------
\* futures_prices: name -> ltp, built from the fetched futures records by
\* looking each symbolToken up in token_master; a later record overwrites
RECURSIVE FuturesPrices(_, _)
FuturesPrices(tm, fdata) ==
    IF fdata = <<>> THEN <<>>
    ELSE LET prev == FuturesPrices(tm, SubSeq(fdata, 1, Len(fdata) - 1))
             data == fdata[Len(fdata)]
             hit == {i \in DOMAIN tm : tm[i].token = data.symbolToken
                                        /\ tm[i].token_type = "FUTURES"}
         IN IF hit = {} THEN prev
            ELSE LET name == tm[CHOOSE i \in hit : TRUE].name
                 IN IF \E k \in DOMAIN prev : prev[k].name = name
                    THEN [k \in DOMAIN prev |->
                            IF prev[k].name = name
                            THEN [name |-> name, ltp |-> data.ltp] ELSE prev[k]]
                    ELSE Append(prev, [name |-> name, ltp |-> data.ltp])

HasPrice(prices, name) == \E k \in DOMAIN prices : prices[k].name = name

PriceOf(prices, name) == prices[CHOOSE k \in DOMAIN prices : prices[k].name = name].ltp

\* the fallback used when strike_distance is missing
DefaultStrikeDistance(name) ==
    IF name = "NIFTY" THEN 50 ELSE IF name = "BANKNIFTY" THEN 100 ELSE 5

\* is_near_atm with `strikes_away < strike_buffer`
IsNearAtm_Strict(row, prices, strike_buffer) ==
    /\ HasPrice(prices, row.name)
    /\ row.strike # Null
    /\ LET strike_distance == IF row.strike_distance = Null \/ row.strike_distance = 0
                              THEN DefaultStrikeDistance(row.name)
                              ELSE row.strike_distance
       IN Abs(PriceOf(prices, row.name) - row.strike) < strike_buffer * strike_distance

\* is_near_atm: strikes_away = abs(future_price - strike) / strike_distance
IsNearAtm(row, prices, strike_buffer) ==
    /\ HasPrice(prices, row.name)
    /\ row.strike # Null
    /\ LET strike_distance == IF row.strike_distance = Null \/ row.strike_distance = 0
                              THEN DefaultStrikeDistance(row.name)
                              ELSE row.strike_distance
       IN Abs(PriceOf(prices, row.name) - row.strike) <= strike_buffer * strike_distance

RECURSIVE FilterNearAtm(_, _, _)
FilterNearAtm(rows, prices, strike_buffer) ==
    IF rows = <<>> THEN <<>>
    ELSE (IF IsNearAtm(Head(rows), prices, strike_buffer) THEN <<Head(rows)>> ELSE <<>>)
         \o FilterNearAtm(Tail(rows), prices, strike_buffer)

\* the rows of one (name, option_type) group, in frame order
RECURSIVE TypeGroup(_, _, _)
TypeGroup(rows, name, option_type) ==
    IF rows = <<>> THEN <<>>
    ELSE (IF Head(rows).name = name /\ Head(rows).symbol = option_type
          THEN <<Head(rows)>> ELSE <<>>)
         \o TypeGroup(Tail(rows), name, option_type)

\* idxmax in the place of idxmin: the first row of greatest distance
ClosestStrike_Farthest(group, future_price) ==
    LET dist(i) == Abs(group[i].strike - future_price)
        worst == CHOOSE i \in DOMAIN group :
                    /\ \A j \in DOMAIN group : dist(j) <= dist(i)
                    /\ \A j \in DOMAIN group : j < i => dist(j) < dist(i)
    IN group[worst]

\* type_group.loc[type_group['atm_distance'].idxmin()]: first row of least distance
ClosestStrike(group, future_price) ==
    LET dist(i) == Abs(group[i].strike - future_price)
        best == CHOOSE i \in DOMAIN group :
                    /\ \A j \in DOMAIN group : dist(i) <= dist(j)
                    /\ \A j \in DOMAIN group : j < i => dist(j) > dist(i)
    IN group[best]

\* exact mode, for one name: one row per option type that has rows
ExactForName(rows, name, prices) ==
    LET pick(t) == LET g == TypeGroup(rows, name, <<"CE", "PE">>[t])
                   IN IF g = <<>> THEN <<>>
                      ELSE <<ClosestStrike(g, PriceOf(prices, name))>>
    IN pick(1) \o pick(2)

RECURSIVE ExactAtm(_, _, _)
ExactAtm(rows, prices, k) ==
    IF k > Len(NameOrder) THEN <<>>
    ELSE (IF HasPrice(prices, NameOrder[k])
          THEN ExactForName(rows, NameOrder[k], prices) ELSE <<>>)
         \o ExactAtm(rows, prices, k + 1)

GetAtmOptionsTokens(tm, fdata, strike_buffer, exact_atm_only) ==
    IF fdata = <<>> THEN <<>>
    ELSE LET all_options == GetOptionsTokens(tm, Null)
             futures_prices == FuturesPrices(tm, fdata)
         IN IF all_options = <<>> \/ futures_prices = <<>> THEN <<>>
            ELSE IF exact_atm_only
                 THEN ExactAtm(all_options, futures_prices, 1)
                 ELSE FilterNearAtm(all_options, futures_prices, strike_buffer)

\* ------------------------------------------------------------------------
\* Quote Provider: connector.api.getMarketData as seen through
\* fetch_realtime_market_data and process_market_data_response
\* ------------------------------------------------------------------------
Prices == {100, 120}

RECURSIVE FlatTokens(_)
FlatTokens(d) ==
    IF d = <<>> THEN <<>> ELSE Head(d).tokens \o FlatTokens(Tail(d))

SymbolOf(tm, token) ==
    LET hit == {i \in DOMAIN tm : tm[i].token = token}
    IN IF hit = {} THEN "EQ" ELSE tm[CHOOSE i \in hit : TRUE].symbol

Quote(tm, token, ltp) ==
    [symbolToken |-> token, tradingSymbol |-> SymbolOf(tm, token), ltp |-> ltp,
     upperCircuit |-> ltp + 20]

\* the quote lists a well-behaved provider can return for the tokens asked:
\* one record per token, futures at any price
FullAnswers(tm, tokens) ==
    LET choice(i) == IF SymbolOf(tm, tokens[i]) = "FUT" THEN Prices ELSE {100}
        assignments == {f \in [DOMAIN tokens -> Prices] : \A i \in DOMAIN tokens : f[i] \in choice(i)}
    IN {[i \in DOMAIN tokens |-> Quote(tm, tokens[i], f[i])] : f \in assignments}

\* the proper prefixes and suffixes of a full answer: some tokens unfetched
PartialAnswers(full) ==
    {SubSeq(full, 1, k) : k \in 0..(Len(full) - 1)}
    \cup {SubSeq(full, k, Len(full)) : k \in 2..Len(full)}

\* What fetch_realtime_market_data / process_market_data_response yield:
\*   "none"  - not connected, status false or an exception inside the call
\*   "raise" - a response whose 'data' is null: process_market_data_response
\*             raises, outside every inner handler
\*   "ok"    - (fetched, unfetched); fetched may miss tokens or repeat a record
ProviderResponses(tm, batch, may_fault) ==
    LET tokens == FlatTokens(batch)
        full == FullAnswers(tm, tokens)
    IN {[kind |-> "ok", fetched |-> a, fault |-> FALSE] : a \in full}
       \cup (IF may_fault
             THEN {[kind |-> "none", fetched |-> <<>>, fault |-> TRUE],
                   [kind |-> "raise", fetched |-> <<>>, fault |-> TRUE]}
                  \cup {[kind |-> "ok", fetched |-> p, fault |-> TRUE] :
                            p \in UNION {PartialAnswers(a) : a \in full}}
                  \cup {[kind |-> "ok", fetched |-> Append(a, a[1]), fault |-> TRUE] :
                            a \in full}
             ELSE {})

\* ------------------------------------------------------------------------
\* Quote Store: store_realtime_market_data
\* ------------------------------------------------------------------------
\* Of the value columns, ltp stands for the twelve that the ON CONFLICT
\* clause lists and upper_circuit for those it does not list.
QuoteRow(record, timestamp) ==
    [symbol_token |-> record.symbolToken, timestamp |-> timestamp,
     trading_symbol |-> record.tradingSymbol, ltp |-> record.ltp,
     upper_circuit |-> record.upperCircuit]

\* ON CONFLICT (symbol_token, timestamp) DO UPDATE SET ltp = excluded.ltp, ...
UpdateOnConflict(rows, record, timestamp) ==
    {IF r.symbol_token = record.symbolToken /\ r.timestamp = timestamp
     THEN [r EXCEPT !.ltp = record.ltp] ELSE r : r \in rows}

\* One INSERT statement. The row's timestamp is CURRENT_TIMESTAMP of the
\* statement. The database clock never goes back; between two statements it
\* may stand still or advance. Only equality of the timestamps of one token
\* is observable, so the clock is advanced only where that makes a difference:
\* when the token already has a row at the current instant.
InsertOne(rows, clock, record) ==
    IF \E r \in rows : r.symbol_token = record.symbolToken /\ r.timestamp = clock
    THEN {[rows |-> UpdateOnConflict(rows, record, clock), clock |-> clock],
          [rows |-> rows \cup {QuoteRow(record, clock + 1)}, clock |-> clock + 1]}
    ELSE {[rows |-> rows \cup {QuoteRow(record, clock)}, clock |-> clock]}

\* the for-loop over market_data; an INSERT may raise (the statements before
\* it are already committed), which makes the call return False
RECURSIVE InsertAll(_, _, _, _, _)
InsertAll(rows, clock, market_data, done, may_fail) ==
    IF market_data = <<>>
    THEN {[rows |-> rows, clock |-> clock, done |-> done, ok |-> TRUE]}
    ELSE (IF may_fail
          THEN {[rows |-> rows, clock |-> clock, done |-> done, ok |-> FALSE]}
          ELSE {})
         \cup UNION {InsertAll(o.rows, o.clock, Tail(market_data),
                               Append(done, Head(market_data)), may_fail) :
                        o \in InsertOne(rows, clock, Head(market_data))}

\* the outcomes of one call: the table, the clock, the records whose INSERT
\* was executed and the value returned
StoreRealtimeMarketData(rows, clock, market_data, may_fail) ==
    IF market_data = <<>>
    THEN {[rows |-> rows, clock |-> clock, done |-> <<>>, ok |-> FALSE]}
    ELSE InsertAll(rows, clock, market_data, <<>>, may_fail)

\* ------------------------------------------------------------------------
\* One acquisition cycle: fetch_and_store_realtime_data
\* ------------------------------------------------------------------------
MaxFaults == 1

\* self.rate_limit_delay when config.yaml sets no request_delay, in seconds;
\* the attribute is assigned in __init__ and read nowhere
RateLimitDelay == 1

\* the summary; the per-type counters 'equity', 'futures', 'options' are omitted
NoResults == [total |-> 0, success |-> 0, failures |-> 0, errors |-> 0]

RECURSIVE TokensOf(_)
TokensOf(records) ==
    IF records = <<>> THEN <<>> ELSE <<Head(records).symbolToken>> \o TokensOf(Tail(records))

\* what the log shows of one provider call: the tokens asked, the outcome,
\* the tokens fetched, whether they were stored, whether the flag was
\* already down when the call was made, and the time of the call
CallRecord(batch, kind, fetched, stored) ==
    [tokens |-> FlatTokens(batch), kind |-> kind, fetched |-> TokensOf(fetched),
     stored |-> stored, after_stop |-> ~running, at |-> now]

\* the second pass with the futures rows collected once more
SecondPassTokens_WithFutures(tm, c, fdata) ==
    LET equity_tokens == IF c.include_equity
                         THEN GetEquityTokens(tm, c.equity_limit) ELSE <<>>
        futures_tokens == IF c.include_futures
                          THEN GetFuturesTokens(tm, c.futures_limit) ELSE <<>>
        options_tokens ==
            IF ~c.include_options THEN <<>>
            ELSE IF c.atm_only /\ fdata # <<>>
                 THEN GetAtmOptionsTokens(tm, fdata, c.strike_buffer, c.exact_atm_only)
                 ELSE GetOptionsTokens(tm, c.options_limit)
    IN equity_tokens \o futures_tokens \o options_tokens

\* the tokens of the second pass: equity, then the options
SecondPassTokens(tm, c, fdata) ==
    LET equity_tokens == IF c.include_equity
                         THEN GetEquityTokens(tm, c.equity_limit) ELSE <<>>
        options_tokens ==
            IF ~c.include_options THEN <<>>
            ELSE IF c.atm_only /\ fdata # <<>>
                 THEN GetAtmOptionsTokens(tm, fdata, c.strike_buffer, c.exact_atm_only)
                 ELSE GetOptionsTokens(tm, c.options_limit)
    IN equity_tokens \o options_tokens

\* the batches of the first pass
FuturesBatches(tm, c, m) ==
    IF ~c.include_futures THEN <<>>
    ELSE BatchTokens(PrepareExchangeTokens(GetFuturesTokens(tm, c.futures_limit)), m)

\* entry of fetch_and_store_realtime_data up to the first futures batch
CycleStart ==
    /\ pc = "cycle_start"
    /\ results' = NoResults
    /\ futures_data' = <<>>
    /\ prev_calls' = calls
    /\ calls' = <<>>
    /\ pending' = FuturesBatches(token_master, cfg, max_tokens_per_request)
    /\ pc' = IF pending' # <<>> THEN "futures_pass" ELSE "collect"
    /\ UNCHANGED <<max_tokens_per_request, cfg, running, now, db_now, token_master,
                   realtime_market_data, faults>>
    /\ UNCHANGED <<batchVars, resolverVars, storeVars, loopVars, refreshCheckVars,
                   paceVars, openVars>>

\* results['total'] = results['success'] + results['failures'], once the
\* second pass has no batch left
Finished(res, rest) ==
    IF rest = <<>> THEN [res EXCEPT !.total = res.success + res.failures] ELSE res

\* a loop body that skips to the end of the cycle when the provider call fails
FetchStep_AbortOnFailure(this_pc, done_pc, is_futures) ==
    /\ pending # <<>>
    /\ \E response \in ProviderResponses(token_master, Head(pending), faults < MaxFaults) :
         LET used == faults + (IF response.fault THEN 1 ELSE 0)
         IN \/ /\ response.kind = "none"
               /\ calls' = Append(calls, CallRecord(Head(pending), "none", <<>>, FALSE))
               /\ faults' = used
               /\ pending' = <<>>
               /\ pc' = "cycle_return"
               /\ results' = Finished(results, pending')
               /\ UNCHANGED <<futures_data, realtime_market_data, db_now>>
            \/ /\ response.kind = "raise"
               /\ calls' = Append(calls, CallRecord(Head(pending), "raise", <<>>, FALSE))
               /\ faults' = used
               /\ results' = [results EXCEPT !.failures = @ + 1, !.errors = @ + 1]
               /\ pending' = <<>>
               /\ pc' = "cycle_return"
               /\ UNCHANGED <<futures_data, realtime_market_data, db_now>>
            \/ /\ response.kind = "ok"
               /\ futures_data' = IF is_futures THEN futures_data \o response.fetched
                                  ELSE futures_data
               /\ pending' = Tail(pending)
               /\ pc' = IF pending' = <<>> THEN done_pc ELSE this_pc
               /\ IF response.fetched = <<>>
                  THEN /\ calls' = Append(calls, CallRecord(Head(pending), "ok", <<>>, FALSE))
                       /\ faults' = used
                       /\ results' = IF is_futures THEN results
                                     ELSE Finished(results, pending')
                       /\ UNCHANGED <<realtime_market_data, db_now>>
                  ELSE \E o \in StoreRealtimeMarketData(realtime_market_data, db_now,
                                    response.fetched, used < MaxFaults) :
                         /\ calls' = Append(calls, CallRecord(Head(pending), "ok",
                                                              response.fetched, o.ok))
                         /\ realtime_market_data' = o.rows
                         /\ db_now' = o.clock
                         /\ faults' = used + (IF o.ok THEN 0 ELSE 1)
                         /\ LET res == IF o.ok
                                       THEN [results EXCEPT
                                               !.success = @ + Len(response.fetched)]
                                       ELSE results
                            IN results' = IF is_futures THEN res
                                          ELSE Finished(res, pending')

\* The body of the two for-loops over batches (`for i, batch in
\* enumerate(futures_batches)` and `for i, batch in enumerate(batches)`):
\* fetch_realtime_market_data, process_market_data_response,
\* store_realtime_market_data. The first loop also extends futures_data; the
\* second is followed by the computation of results['total'] and the return.
\* An exception raised outside the inner handlers ends the cycle in the
\* except branch of fetch_and_store_realtime_data.
FetchStep(this_pc, done_pc, is_futures) ==
    /\ pending # <<>>
    /\ \E response \in ProviderResponses(token_master, Head(pending), faults < MaxFaults) :
         LET used == faults + (IF response.fault THEN 1 ELSE 0)
         IN \/ /\ response.kind = "none"
               /\ calls' = Append(calls, CallRecord(Head(pending), "none", <<>>, FALSE))
               /\ faults' = used
               /\ pending' = Tail(pending)
               /\ pc' = IF pending' = <<>> THEN done_pc ELSE this_pc
               /\ results' = IF is_futures THEN results ELSE Finished(results, pending')
               /\ UNCHANGED <<futures_data, realtime_market_data, db_now>>
            \/ /\ response.kind = "raise"
               /\ calls' = Append(calls, CallRecord(Head(pending), "raise", <<>>, FALSE))
               /\ faults' = used
               /\ results' = [results EXCEPT !.failures = @ + 1, !.errors = @ + 1]
               /\ pending' = <<>>
               /\ pc' = "cycle_return"
               /\ UNCHANGED <<futures_data, realtime_market_data, db_now>>
            \/ /\ response.kind = "ok"
               /\ futures_data' = IF is_futures THEN futures_data \o response.fetched
                                  ELSE futures_data
               /\ pending' = Tail(pending)
               /\ pc' = IF pending' = <<>> THEN done_pc ELSE this_pc
               /\ IF response.fetched = <<>>
                  THEN /\ calls' = Append(calls, CallRecord(Head(pending), "ok", <<>>, FALSE))
                       /\ faults' = used
                       /\ results' = IF is_futures THEN results
                                     ELSE Finished(results, pending')
                       /\ UNCHANGED <<realtime_market_data, db_now>>
                  ELSE \E o \in StoreRealtimeMarketData(realtime_market_data, db_now,
                                    response.fetched, used < MaxFaults) :
                         /\ calls' = Append(calls, CallRecord(Head(pending), "ok",
                                                              response.fetched, o.ok))
                         /\ realtime_market_data' = o.rows
                         /\ db_now' = o.clock
                         /\ faults' = used + (IF o.ok THEN 0 ELSE 1)
                         /\ LET res == IF o.ok
                                       THEN [results EXCEPT
                                               !.success = @ + Len(response.fetched)]
                                       ELSE results
                            IN results' = IF is_futures THEN res
                                          ELSE Finished(res, pending')

\* one iteration of `for i, batch in enumerate(futures_batches)`
FetchFuturesBatch ==
    /\ pc = "futures_pass"
    /\ FetchStep("futures_pass", "collect", TRUE)
    /\ UNCHANGED <<max_tokens_per_request, cfg, running, now, token_master, prev_calls>>
    /\ UNCHANGED <<batchVars, resolverVars, storeVars, loopVars, refreshCheckVars,
                   paceVars, openVars>>

\* from the end of the first pass to the first batch of the second pass
CollectTokens ==
    /\ pc = "collect"
    /\ LET all_tokens == SecondPassTokens(token_master, cfg, futures_data)
       IN IF all_tokens = <<>> /\ futures_data = <<>>
          THEN /\ pc' = "cycle_return"
               /\ UNCHANGED <<results, pending>>
          ELSE IF all_tokens # <<>>
               THEN /\ pending' = BatchTokens(PrepareExchangeTokens(all_tokens),
                                              max_tokens_per_request)
                    /\ pc' = "second_pass"
                    /\ UNCHANGED results
               ELSE /\ results' = Finished(results, <<>>)
                    /\ pc' = "cycle_return"
                    /\ UNCHANGED pending
    /\ UNCHANGED <<max_tokens_per_request, cfg, running, now, db_now, token_master,
                   realtime_market_data, futures_data, calls, prev_calls, faults>>
    /\ UNCHANGED <<batchVars, resolverVars, storeVars, loopVars, refreshCheckVars,
                   paceVars, openVars>>

\* one iteration of `for i, batch in enumerate(batches)`
FetchBatch ==
    /\ pc = "second_pass"
    /\ FetchStep("second_pass", "cycle_return", FALSE)
    /\ UNCHANGED <<max_tokens_per_request, cfg, running, now, token_master, prev_calls>>
    /\ UNCHANGED <<batchVars, resolverVars, storeVars, loopVars, refreshCheckVars,
                   paceVars, openVars>>

\* ------------------------------------------------------------------------
\* The acquisition loop: run_pipeline (steps 3 and 4), wait_until_market_open,
\* run_realtime_monitoring and run_monitor
\* ------------------------------------------------------------------------
MaxTime == 46

\* market.trading_hours.start / .end of config.yaml, as seconds of the day
MarketStart == 40

MarketEnd == 43

WaitIncrement == 30

\* is_market_hours without the upper end of the trading hours
IsMarketHours_NoEnd(t) == MarketStart <= t

\* is_market_hours, for a configuration that has both trading hours
IsMarketHours(t) == MarketStart <= t /\ t <= MarketEnd

\* handle_signal / signal_handler
SetFlag ==
    /\ running
    /\ pc \notin {"stopped", "crashed", "aborted", "pipeline_done", "idle"}
    /\ running' = FALSE
    /\ UNCHANGED <<max_tokens_per_request, cfg, now, db_now, pc, token_master,
                   realtime_market_data, faults>>
    /\ UNCHANGED <<batchVars, resolverVars, storeVars, loopVars, cycleVars,
                   refreshCheckVars, paceVars, openVars>>

\* step 3 of run_pipeline: wait_until_market_open up to its while loop
WaitUntilMarketOpen ==
    /\ pc = "step3"
    /\ IF ~cfg.wait_for_market
       THEN pc' = "step4" /\ UNCHANGED <<wait_seconds, waited>>
       ELSE IF cfg.trading_hours = "missing"
       THEN pc' = "aborted" /\ UNCHANGED <<wait_seconds, waited>>
       ELSE IF IsMarketHours(now) \/ now > MarketStart
       THEN pc' = "step4" /\ UNCHANGED <<wait_seconds, waited>>
       ELSE /\ wait_seconds' = MarketStart - now
            /\ waited' = 0
            /\ pc' = IF wait_seconds' <= 0 THEN "step4" ELSE "wait_check"
    /\ UNCHANGED <<max_tokens_per_request, cfg, running, now, db_now, token_master,
                   realtime_market_data, iterations, sleep_i, faults>>
    /\ UNCHANGED <<batchVars, resolverVars, storeVars, cycleVars, refreshCheckVars,
                   paceVars, openVars>>

\* while waited < wait_seconds and running:
WaitCheck ==
    /\ pc = "wait_check"
    /\ pc' = IF waited < wait_seconds /\ running THEN "wait_sleep" ELSE "step4"
    /\ UNCHANGED <<max_tokens_per_request, cfg, running, now, db_now, token_master,
                   realtime_market_data, faults>>
    /\ UNCHANGED <<batchVars, resolverVars, storeVars, loopVars, cycleVars,
                   refreshCheckVars, paceVars, openVars>>

\* time.sleep(wait_time); waited += wait_time
WaitSleep ==
    /\ pc = "wait_sleep"
    /\ LET wait_time == Min(WaitIncrement, wait_seconds - waited)
       IN /\ now + wait_time <= MaxTime
          /\ now' = now + wait_time
          /\ waited' = waited + wait_time
    /\ db_now' = db_now + 1
    /\ pc' = "wait_check"
    /\ UNCHANGED <<max_tokens_per_request, cfg, running, token_master,
                   realtime_market_data, wait_seconds, iterations, sleep_i, faults>>
    /\ UNCHANGED <<batchVars, resolverVars, storeVars, cycleVars, refreshCheckVars,
                   paceVars, openVars>>

\* step 4 of run_pipeline: `if running:` run_realtime_monitoring(...)
StartMonitoring ==
    /\ pc = "step4"
    /\ IF running
       THEN pc' = "loop_head" /\ iterations' = 0
       ELSE pc' = "pipeline_done" /\ UNCHANGED iterations
    /\ UNCHANGED <<max_tokens_per_request, cfg, running, now, db_now, token_master,
                   realtime_market_data, wait_seconds, waited, sleep_i, faults>>
    /\ UNCHANGED <<batchVars, resolverVars, storeVars, cycleVars, refreshCheckVars,
                   paceVars, openVars>>

\* `while running:` down to the market-hours decision. is_market_hours raises
\* when a trading hour is missing from the configuration: run_monitor catches
\* the exception outside its loop, run_realtime_monitoring does not catch it.
LoopHead ==
    /\ pc = "loop_head"
    /\ IF ~running
       THEN pc' = "stopped" /\ UNCHANGED <<iterations, sleep_i, start_time, cycle_iteration>>
       ELSE /\ iterations' = iterations + 1
            /\ IF cfg.trading_hours = "missing"
               THEN /\ pc' = IF cfg.entry = "monitor" THEN "stopped" ELSE "crashed"
                    /\ UNCHANGED <<sleep_i, start_time, cycle_iteration>>
               ELSE IF IsMarketHours(now)
               THEN /\ pc' = "cycle_start"
                    /\ start_time' = now
                    /\ cycle_iteration' = iterations'
                    /\ UNCHANGED sleep_i
               ELSE /\ pc' = "sleep_check"
                    /\ sleep_i' = 0
                    /\ UNCHANGED <<start_time, cycle_iteration>>
    /\ UNCHANGED <<max_tokens_per_request, cfg, running, now, db_now, token_master,
                   realtime_market_data, wait_seconds, waited, faults, elapsed_time>>
    /\ UNCHANGED <<batchVars, resolverVars, storeVars, cycleVars, refreshCheckVars, openVars>>

\* after fetch_and_store_realtime_data returned: take elapsed_time, log the
\* summary (and, in the pipeline, export the market summary), then enter the
\* sleep loop
AfterCycle ==
    /\ pc = "cycle_return"
    /\ elapsed_time' = now - start_time
    /\ sleep_i' = 0
    /\ pc' = "sleep_check"
    /\ UNCHANGED <<max_tokens_per_request, cfg, running, now, db_now, token_master,
                   realtime_market_data, wait_seconds, waited, iterations, faults,
                   start_time, cycle_iteration>>
    /\ UNCHANGED <<batchVars, resolverVars, storeVars, cycleVars, refreshCheckVars, openVars>>

\* the sleep loop without its test of the flag
SleepCheck_IgnoresFlag ==
    /\ pc = "sleep_check"
    /\ pc' = IF sleep_i < cfg.refresh_interval THEN "sleeping" ELSE "loop_head"
    /\ UNCHANGED <<max_tokens_per_request, cfg, running, now, db_now, token_master,
                   realtime_market_data, faults>>
    /\ UNCHANGED <<batchVars, resolverVars, storeVars, loopVars, cycleVars,
                   refreshCheckVars, paceVars, openVars>>

\* for _ in range(refresh_interval): if not running: break
SleepCheck ==
    /\ pc = "sleep_check"
    /\ pc' = IF sleep_i < cfg.refresh_interval /\ running THEN "sleeping" ELSE "loop_head"
    /\ UNCHANGED <<max_tokens_per_request, cfg, running, now, db_now, token_master,
                   realtime_market_data, faults>>
    /\ UNCHANGED <<batchVars, resolverVars, storeVars, loopVars, cycleVars,
                   refreshCheckVars, paceVars, openVars>>

\* time.sleep(1)
SleepOneSecond ==
    /\ pc = "sleeping"
    /\ now < MaxTime
    /\ now' = now + 1
    /\ db_now' = db_now + 1
    /\ sleep_i' = sleep_i + 1
    /\ pc' = "sleep_check"
    /\ UNCHANGED <<max_tokens_per_request, cfg, running, token_master,
                   realtime_market_data, wait_seconds, waited, iterations, faults>>
    /\ UNCHANGED <<batchVars, resolverVars, storeVars, cycleVars, refreshCheckVars,
                   paceVars, openVars>>

\* ------------------------------------------------------------------------
\* Specifications
\* ------------------------------------------------------------------------
Config(ie, ifu, io, el, fl, ol, atm, buf, exact, refresh, wait, entry, hours) ==
    [include_equity |-> ie, include_futures |-> ifu, include_options |-> io,
     equity_limit |-> el, futures_limit |-> fl, options_limit |-> ol,
     atm_only |-> atm, strike_buffer |-> buf, exact_atm_only |-> exact,
     refresh_interval |-> refresh, wait_for_market |-> wait, entry |-> entry,
     trading_hours |-> hours]

\* the defaults of run_pipeline
DefaultConfig ==
    Config(TRUE, TRUE, TRUE, Null, Null, Null, TRUE, 1, FALSE, 60, TRUE, "pipeline", "set")

CycleIdle ==
    /\ results = NoResults
    /\ futures_data = <<>>
    /\ pending = <<>>
    /\ calls = <<>>
    /\ prev_calls = <<>>

LoopIdle ==
    /\ wait_seconds = 0
    /\ waited = 0
    /\ iterations = 0
    /\ sleep_i = 0

BatchIdle ==
    /\ exchange_tokens = <<>>
    /\ batches = <<>>
    /\ bt_pc = "idle"

StoreIdle ==
    /\ inserted = <<>>
    /\ store_calls = 0
    /\ store_result = "none"
    /\ tokens_data = <<>>
    /\ old_master = <<>>

\* a DataFrame-valued local: not yet assigned, None, or a frame of rows
Unset == [state |-> "unset", rows |-> <<>>]

NoneFrame == [state |-> "None", rows |-> <<>>]

Frame(rows) == [state |-> "frame", rows |-> rows]

\* no refresh has run and the ATM Selector has not been called
ResolverIdle ==
    /\ tokens_df = <<>>
    /\ futures_df = Unset
    /\ options_df = Unset
    /\ equity_df = Unset
    /\ refresh_result = "none"
    /\ atm_options = Unset

\* needs_token_refresh has not been called
RefreshCheckIdle ==
    /\ hard_refresh = FALSE
    /\ created_at = <<>>
    /\ pre_market_start_str = "09:00"
    /\ current_date = 0
    /\ needs_refresh = "none"

\* no cycle has been timed
PaceIdle ==
    /\ start_time = Null
    /\ elapsed_time = Null
    /\ cycle_iteration = 0

\* the DBManager was constructed without a recovery
OpenIdle ==
    /\ db_file = "good"
    /\ conn = "open"
    /\ recoveries = 0

\* no pipeline or monitor process exists
ProcessIdle ==
    /\ cfg = DefaultConfig
    /\ running = TRUE
    /\ now = 0
    /\ db_now = 0
    /\ pc = "idle"
    /\ token_master = <<>>
    /\ realtime_market_data = {}
    /\ faults = 0
    /\ CycleIdle
    /\ LoopIdle
    /\ StoreIdle
    /\ ResolverIdle
    /\ OpenIdle
    /\ PaceIdle
    /\ RefreshCheckIdle

\* the settings explored for the loop
LoopConfigs ==
    {Config(TRUE, ifu, TRUE, Null, Null, Null, atm, 1, FALSE, refresh, wait, entry, hours) :
        ifu \in BOOLEAN, atm \in BOOLEAN, refresh \in {2, 3},
        wait \in BOOLEAN, entry \in {"pipeline", "monitor"}, hours \in {"set", "missing"}}

\* The state when run_pipeline reaches step 3, or when run_monitor reaches its
\* loop, with the Token Store filled by an earlier refresh.
Init ==
    /\ cfg \in {c \in LoopConfigs : c.entry = "monitor" => c.wait_for_market}
    /\ max_tokens_per_request \in {1, 2}
    /\ running = TRUE
    /\ now \in {0, 25, 40, 45}
    /\ db_now = 0
    /\ pc = IF cfg.entry = "monitor" THEN "loop_head" ELSE "step3"
    /\ token_master = SmallStore
    /\ realtime_market_data = {}
    /\ faults = 0
    /\ CycleIdle
    /\ LoopIdle
    /\ BatchIdle
    /\ StoreIdle
    /\ ResolverIdle
    /\ OpenIdle
    /\ PaceIdle
    /\ RefreshCheckIdle

Next ==
    \/ SetFlag
    \/ WaitUntilMarketOpen
    \/ WaitCheck
    \/ WaitSleep
    \/ StartMonitoring
    \/ LoopHead
    \/ CycleStart
    \/ FetchFuturesBatch
    \/ CollectTokens
    \/ FetchBatch
    \/ AfterCycle
    \/ SleepCheck
    \/ SleepOneSecond

Spec == Init /\ [][Next]_vars

\* one call of fetch_and_store_realtime_data during market hours
InitCycle ==
    \* the settings explored for a single cycle
    /\ cfg \in {Config(ie, ifu, io, el, fl, ol, atm, buf, exact, 60, TRUE, "pipeline", "set") :
                   ie \in BOOLEAN, ifu \in BOOLEAN, io \in BOOLEAN, el \in {Null, 1},
                   fl \in {Null, 1}, ol \in {Null, 1}, atm \in BOOLEAN, buf \in {0, 1},
                   exact \in BOOLEAN}
    /\ max_tokens_per_request \in 1..MaxPerRequest
    /\ running = TRUE
    /\ now = MarketStart
    /\ db_now = 0
    /\ pc = "cycle_start"
    /\ token_master \in {SmallStore, RichStore}
    /\ realtime_market_data = {}
    /\ faults = 0
    /\ CycleIdle
    /\ LoopIdle
    /\ BatchIdle
    /\ StoreIdle
    /\ ResolverIdle
    /\ OpenIdle
    /\ PaceIdle
    /\ RefreshCheckIdle

NextCycle ==
    \/ CycleStart
    \/ FetchFuturesBatch
    \/ CollectTokens
    \/ FetchBatch

SpecCycle == InitCycle /\ [][NextCycle]_vars

\* ------------------------------------------------------------------------
\* Quote Store on its own: calls of store_realtime_market_data within a cycle
\* ------------------------------------------------------------------------
MaxStoreCalls == 2

MaxRecords == 2

QuoteRecords == {[symbolToken |-> t, tradingSymbol |-> "EQ", ltp |-> p,
                  upperCircuit |-> p + 20] :
                    t \in TokenIds, p \in Prices}

\* store_realtime_market_data(market_data)
StoreQuotes ==
    /\ pc = "quote_store"
    /\ store_calls < MaxStoreCalls
    /\ \E market_data \in SeqsUpTo(QuoteRecords, MaxRecords) :
         \E o \in StoreRealtimeMarketData(realtime_market_data, db_now, market_data, TRUE) :
            /\ realtime_market_data' = o.rows
            /\ db_now' = o.clock
            /\ inserted' = inserted \o o.done
            /\ store_result' = IF o.ok THEN "True" ELSE "False"
    /\ store_calls' = store_calls + 1
    /\ UNCHANGED <<max_tokens_per_request, cfg, running, now, pc, token_master,
                   tokens_data, old_master, faults>>
    /\ UNCHANGED <<batchVars, resolverVars, loopVars, cycleVars, refreshCheckVars,
                   paceVars, openVars>>

InitQuote ==
    /\ max_tokens_per_request = 1
    /\ cfg = DefaultConfig
    /\ running = TRUE
    /\ now = MarketStart
    /\ db_now = 0
    /\ pc = "quote_store"
    /\ token_master = <<>>
    /\ realtime_market_data = {}
    /\ faults = 0
    /\ CycleIdle
    /\ LoopIdle
    /\ BatchIdle
    /\ StoreIdle
    /\ ResolverIdle
    /\ OpenIdle
    /\ PaceIdle
    /\ RefreshCheckIdle

SpecQuote == InitQuote /\ [][StoreQuotes]_vars

\* ------------------------------------------------------------------------
\* Token Store on its own: DBManager.store_tokens
\* ------------------------------------------------------------------------
MaxRows == 2


\* PRIMARY KEY (token): no two rows of the INSERT ... SELECT share a token
PrimaryKeyHolds(rows) ==
    \A i, j \in DOMAIN rows : i # j => rows[i].token # rows[j].token

\* what store_tokens leaves in token_master and what it returns
StoreTokensOutcome(rows, data, complete) ==
    IF ~complete THEN [rows |-> rows, result |-> "False"]
    ELSE IF ~PrimaryKeyHolds(data) THEN [rows |-> <<>>, result |-> "False"]
    ELSE [rows |-> data, result |-> "True"]

\* store_tokens(tokens_data). `complete` is whether the frame has every
\* required column; without one, tokens_data[required_columns] raises before
\* any statement runs. DELETE and INSERT are two statements on an autocommit
\* connection.
StoreTokens ==
    /\ pc = "token_store"
    /\ store_calls < MaxStoreCalls
    \* rows a refresh may hand over; the last one repeats the token of the first
    /\ \E data \in SeqsUpTo({SmallStore[1], SmallStore[2], SmallStore[3],
                              TokenRow(1, "EQ", "NIFTY", "NSE", "EQUITY", 0, Null)}, MaxRows),
          complete \in BOOLEAN :
         /\ tokens_data' = data
         /\ old_master' = token_master
         /\ token_master' = StoreTokensOutcome(token_master, data, complete).rows
         /\ store_result' = StoreTokensOutcome(token_master, data, complete).result
    /\ store_calls' = store_calls + 1
    /\ UNCHANGED <<max_tokens_per_request, cfg, running, now, db_now, pc,
                   realtime_market_data, inserted, faults>>
    /\ UNCHANGED <<batchVars, resolverVars, loopVars, cycleVars, refreshCheckVars,
                   paceVars, openVars>>

InitTokens ==
    /\ max_tokens_per_request = 1
    /\ cfg = DefaultConfig
    /\ running = TRUE
    /\ now = 0
    /\ db_now = 0
    /\ pc = "token_store"
    /\ token_master \in {<<>>, SubSeq(SmallStore, 1, 2), SmallStore}
    /\ realtime_market_data = {}
    /\ faults = 0
    /\ CycleIdle
    /\ LoopIdle
    /\ BatchIdle
    /\ StoreIdle
    /\ ResolverIdle
    /\ OpenIdle
    /\ PaceIdle
    /\ RefreshCheckIdle

SpecTokens == InitTokens /\ [][StoreTokens]_vars

\* ------------------------------------------------------------------------
\* Specification of the batch planner: inputs drawn from bounded sets
\* ------------------------------------------------------------------------
TokenLists == SeqsUpTo(TokenIds, MaxListLen)

InitBatch ==
    /\ max_tokens_per_request \in 1..MaxPerRequest
    /\ exchange_tokens \in
          {<<>>}
          \cup {<<[exchange |-> e, tokens |-> t]>> : e \in Exchanges, t \in TokenLists}
          \cup {<<[exchange |-> "NSE", tokens |-> t1], [exchange |-> "NFO", tokens |-> t2]>> :
                   t1 \in TokenLists, t2 \in TokenLists}
          \cup {<<[exchange |-> "NFO", tokens |-> t1], [exchange |-> "NSE", tokens |-> t2]>> :
                   t1 \in TokenLists, t2 \in TokenLists}
    /\ batches = <<>>
    /\ bt_pc = "input"
    /\ ProcessIdle

CallBatchTokens ==
    /\ bt_pc = "input"
    /\ batches' = BatchTokens(exchange_tokens, max_tokens_per_request)
    /\ bt_pc' = "done"
    /\ UNCHANGED <<max_tokens_per_request, exchange_tokens>>
    /\ UNCHANGED <<cfg, running, now, db_now, pc, token_master, realtime_market_data,
                   wait_seconds, waited, iterations, sleep_i, results, futures_data,
                   pending, calls, prev_calls, inserted, store_calls, store_result,
                   tokens_data, old_master, faults, tokens_df, futures_df, options_df,
                   equity_df, refresh_result, atm_options, hard_refresh, created_at,
                   pre_market_start_str, current_date, needs_refresh, start_time,
                   elapsed_time, cycle_iteration, db_file, conn, recoveries>>

SpecBatch == InitBatch /\ [][CallBatchTokens]_vars

\* ------------------------------------------------------------------------
\* Instrument Universe Resolver: TokenManager
\* ------------------------------------------------------------------------
\* A name or symbol is a sequence of text pieces; "-EQ" is a piece of its own,
\* so that f"{name}-EQ" and str.replace('-EQ', '') act on the text.
CatalogRow(token, symbol, name, expiry, strike, instrumenttype, exch_seg) ==
    [token |-> token, symbol |-> symbol, name |-> name, expiry |-> expiry,
     strike |-> strike, instrumenttype |-> instrumenttype, exch_seg |-> exch_seg]

\* an expiry the catalog leaves empty, which pd.to_datetime turns into NaT
NoExpiry == ""

\* None in a text column
NoneText == "None"

\* config.get('instrument_types', 'futures_stock') and its neighbours
FuturesStock == "FUTSTK"

OptionsStock == "OPTSTK"

NfoSegment == "NFO"

NseSegment == "NSE"

\* the expiry texts that date_formats.expiry parses, the date each one
\* stands for (a day number) and the same date written in date_formats.db_date
ExpiryFormats ==
    << [text |-> "26DEC2024", date |-> 0, db |-> "2024-12-26"],
       [text |-> "30JAN2025", date |-> 1, db |-> "2025-01-30"],
       [text |-> "27FEB2025", date |-> 2, db |-> "2025-02-27"] >>

Parsable(text) == \E i \in DOMAIN ExpiryFormats : ExpiryFormats[i].text = text

\* pd.to_datetime(text, format=expiry_format).date() of a parsable text
ToDatetime(text) ==
    ExpiryFormats[CHOOSE i \in DOMAIN ExpiryFormats : ExpiryFormats[i].text = text].date

\* x.strftime(db_date_format)
Strftime(date) ==
    ExpiryFormats[CHOOSE i \in DOMAIN ExpiryFormats : ExpiryFormats[i].date = date].db

\* self.tokens_df[(instrumenttype == t) & (exch_seg == nfo_segment)]
EligibleRows(df, instrumenttype) ==
    LET Test(r) == r.instrumenttype = instrumenttype /\ r.exch_seg = NfoSegment
    IN SelectSeq(df, Test)

SetMin(S) == CHOOSE x \in S : \A y \in S : x <= y

\* a cohort row: expiry rewritten in db_date format, token_type set,
\* futures_token None
Resolved(r, token_type) ==
    [token |-> r.token, symbol |-> r.symbol, name |-> r.name, exch_seg |-> r.exch_seg,
     expiry |-> Strftime(ToDatetime(r.expiry)), strike |-> r.strike,
     token_type |-> token_type, futures_token |-> Null, strike_distance |-> Null]

\* The part process_futures_tokens and process_options_tokens share: filter,
\* parse the expiries, keep the rows at the minimum expiry and rewrite their
\* expiry. A text that does not parse makes pd.to_datetime raise. A missing
\* expiry becomes NaT; whether min() over the dates then raises or skips it
\* depends on the pandas in use (nat_raises).
CurrentExpiryRows(df, instrumenttype, token_type, nat_raises) ==
    LET rows == EligibleRows(df, instrumenttype)
        dates == {ToDatetime(rows[i].expiry) :
                     i \in {j \in DOMAIN rows : rows[j].expiry # NoExpiry}}
        AtMin(r) == r.expiry # NoExpiry /\ ToDatetime(r.expiry) = SetMin(dates)
        current == IF dates = {} THEN <<>> ELSE SelectSeq(rows, AtMin)
    IN IF rows = <<>> THEN NoneFrame
       ELSE IF \E i \in DOMAIN rows : rows[i].expiry # NoExpiry /\ ~Parsable(rows[i].expiry)
            THEN NoneFrame
       ELSE IF nat_raises /\ \E i \in DOMAIN rows : rows[i].expiry = NoExpiry
            THEN NoneFrame
       ELSE Frame([i \in DOMAIN current |-> Resolved(current[i], token_type)])

\* process_futures_tokens without the filter on min_expiry
ProcessFuturesTokens_NoExpiryFilter(df, nat_raises) ==
    LET cohort == CurrentExpiryRows(df, FuturesStock, "FUTURES", nat_raises)
        Dated(r) == r.expiry # NoExpiry
        rows == SelectSeq(EligibleRows(df, FuturesStock), Dated)
    IN IF cohort.state = "None" THEN NoneFrame
       ELSE Frame([i \in DOMAIN rows |-> Resolved(rows[i], "FUTURES")])

\* process_futures_tokens
ProcessFuturesTokens(df, nat_raises) ==
    CurrentExpiryRows(df, FuturesStock, "FUTURES", nat_raises)

\* ------------------------------------------------------------------------
\* process_options_tokens: strike / 100 and strike_distance
\* ------------------------------------------------------------------------
\* sorted(group['strike'].unique())
RECURSIVE SortedSet(_)
SortedSet(S) ==
    IF S = {} THEN <<>> ELSE <<SetMin(S)>> \o SortedSet(S \ {SetMin(S)})

\* [round(unique_strikes[i+1] - unique_strikes[i], 2) for i in range(len - 1)];
\* strikes carry two decimals, which the rounding keeps
Differences(unique_strikes) ==
    [i \in 1..(Len(unique_strikes) - 1) |-> unique_strikes[i + 1] - unique_strikes[i]]

Count(seq, x) == Cardinality({i \in DOMAIN seq : seq[i] = x})

\* the greatest difference instead of the most common one
MostCommon_Greatest(differences) ==
    CHOOSE x \in Range(differences) : \A y \in Range(differences) : y <= x

\* Counter(differences).most_common(1)[0][0]: the highest count, the
\* difference met first among equals
MostCommon(differences) ==
    differences[CHOOSE i \in DOMAIN differences :
                   /\ \A j \in DOMAIN differences :
                         Count(differences, differences[j]) <= Count(differences, differences[i])
                   /\ \A j \in DOMAIN differences :
                         j < i => Count(differences, differences[j])
                                     < Count(differences, differences[i])]

\* strike_distances.get(name): None for a name with fewer than two strikes
StrikeDistance(rows, name) ==
    LET unique_strikes == SortedSet({rows[i].strike :
                                        i \in {j \in DOMAIN rows : rows[j].name = name}})
    IN IF Len(unique_strikes) > 1 THEN MostCommon(Differences(unique_strikes)) ELSE Null

\* process_options_tokens. The catalog gives an option's strike times 100.
ProcessOptionsTokens(df, nat_raises) ==
    LET cohort == CurrentExpiryRows(df, OptionsStock, "OPTIONS", nat_raises)
        divided == [i \in DOMAIN cohort.rows |->
                      [cohort.rows[i] EXCEPT !.strike = cohort.rows[i].strike \div 100]]
    IN IF cohort.state = "None" THEN NoneFrame
       ELSE Frame([i \in DOMAIN divided |->
                     [divided[i] EXCEPT
                        !.strike_distance = StrikeDistance(divided, divided[i].name)]])

\* ------------------------------------------------------------------------
\* process_equity_tokens
\* ------------------------------------------------------------------------
EqSuffix == "-EQ"

\* f"{name}-EQ"
EquitySymbol(name) == Append(name, EqSuffix)

\* symbol.str.replace('-EQ', ''): every occurrence is removed
BaseName(symbol) ==
    LET Kept(piece) == piece # EqSuffix
    IN SelectSeq(symbol, Kept)

\* futures_df.set_index('name')['token'].to_dict() looked up with base_name:
\* the token of the last cohort row of that name, None when there is none
FuturesTokenMap(futures_rows, base_name) ==
    LET hits == {i \in DOMAIN futures_rows : futures_rows[i].name = base_name}
    IN IF hits = {} THEN Null
       ELSE futures_rows[CHOOSE i \in hits : \A j \in hits : j <= i].token

\* process_equity_tokens(futures_df)
ProcessEquityTokens(df, futures_rows) ==
    LET Wanted(r) == /\ r.exch_seg = NseSegment
                     /\ \E i \in DOMAIN futures_rows :
                           r.symbol = EquitySymbol(futures_rows[i].name)
        rows == SelectSeq(df, Wanted)
    IN IF rows = <<>> THEN NoneFrame
       ELSE Frame([i \in DOMAIN rows |->
                     [token |-> rows[i].token, symbol |-> rows[i].symbol,
                      name |-> rows[i].name, exch_seg |-> rows[i].exch_seg,
                      expiry |-> NoneText, strike |-> 0, token_type |-> "EQUITY",
                      futures_token |-> FuturesTokenMap(futures_rows, BaseName(rows[i].symbol)),
                      strike_distance |-> Null]])

\* ------------------------------------------------------------------------
\* process_and_store_tokens and its specification
\* ------------------------------------------------------------------------
MaxCohortRows == 2

NameFoo == <<"FOO">>

NameBar == <<"BAR">>

\* an underlying whose name has the text "-EQ" inside
NameAEqB == <<"A", "-EQ", "B">>

\* futures rows of the catalog; the last one is an index future, not eligible
FuturesPool ==
    {CatalogRow(31, Append(NameFoo, "FUT"), NameFoo, "30JAN2025", Null, FuturesStock, NfoSegment),
     CatalogRow(32, Append(NameFoo, "FUT"), NameFoo, "27FEB2025", Null, FuturesStock, NfoSegment),
     CatalogRow(33, Append(NameBar, "FUT"), NameBar, "27FEB2025", Null, FuturesStock, NfoSegment),
     CatalogRow(34, Append(NameBar, "FUT"), NameBar, "garbage", Null, FuturesStock, NfoSegment),
     CatalogRow(35, Append(NameAEqB, "FUT"), NameAEqB, "30JAN2025", Null, FuturesStock, NfoSegment),
     CatalogRow(36, Append(NameFoo, "FUT"), NameFoo, NoExpiry, Null, FuturesStock, NfoSegment),
     CatalogRow(37, Append(NameBar, "FUT"), NameBar, "26DEC2024", Null, "FUTIDX", NfoSegment)}

OptionsPool ==
    {CatalogRow(41, Append(NameFoo, "CE"), NameFoo, "30JAN2025", 10000, OptionsStock, NfoSegment),
     CatalogRow(42, Append(NameBar, "CE"), NameBar, "garbage", 15000, OptionsStock, NfoSegment)}

\* cash rows: two that match an underlying, one in another segment, one of
\* an underlying without futures
EquityPool ==
    {CatalogRow(51, EquitySymbol(NameFoo), NameFoo, NoExpiry, Null, "", NseSegment),
     CatalogRow(52, EquitySymbol(NameAEqB), NameAEqB, NoExpiry, Null, "", NseSegment),
     CatalogRow(53, EquitySymbol(NameFoo), NameFoo, NoExpiry, Null, "", "BSE"),
     CatalogRow(54, EquitySymbol(<<"ZED">>), <<"ZED">>, NoExpiry, Null, "", NseSegment)}

Catalogs ==
    {f \o o \o e : f \in SeqsUpTo(FuturesPool, MaxCohortRows),
                   o \in SeqsUpTo(OptionsPool, MaxCohortRows),
                   e \in SeqsUpTo(EquityPool, MaxCohortRows)}

\* process_and_store_tokens that goes on when the options cohort is missing
RefreshTokens_IgnoresOptions ==
    /\ pc = "refresh"
    /\ pc' = "refreshed"
    /\ \E catalog \in Catalogs, nat_raises \in BOOLEAN :
         LET f == ProcessFuturesTokens(catalog, nat_raises)
             o == ProcessOptionsTokens(catalog, nat_raises)
             e == ProcessEquityTokens(catalog, f.rows)
             combined == f.rows \o o.rows \o e.rows
             out == StoreTokensOutcome(token_master, combined, TRUE)
         IN /\ tokens_df' = catalog
            /\ futures_df' = f
            /\ options_df' = IF f.state = "None" THEN Unset ELSE o
            /\ equity_df' = IF f.state = "None" THEN Unset ELSE e
            /\ IF f.state = "None" \/ e.state = "None"
               THEN /\ refresh_result' = "False"
                    /\ UNCHANGED <<token_master, tokens_data, store_calls, store_result>>
               ELSE /\ tokens_data' = combined
                    /\ token_master' = out.rows
                    /\ store_result' = out.result
                    /\ store_calls' = store_calls + 1
                    /\ refresh_result' = out.result
    /\ old_master' = token_master
    /\ UNCHANGED <<max_tokens_per_request, cfg, running, now, db_now,
                   realtime_market_data, inserted, faults, atm_options>>
    /\ UNCHANGED <<batchVars, loopVars, cycleVars, refreshCheckVars, paceVars, openVars>>

\* process_and_store_tokens(hard_refresh): needs_token_refresh, fetch_tokens,
\* the three cohorts in turn, pd.concat and store_tokens
RefreshTokens ==
    /\ pc = "refresh"
    /\ pc' = "refreshed"
    /\ \/ \E skipped \in {"True", "False"} :
            \* "True": needs_token_refresh says no; "False": fetch_tokens failed
            /\ refresh_result' = skipped
            /\ UNCHANGED <<tokens_df, futures_df, options_df, equity_df,
                           token_master, tokens_data, store_calls, store_result>>
       \/ \E catalog \in Catalogs, nat_raises \in BOOLEAN :
            LET f == ProcessFuturesTokens(catalog, nat_raises)
                o == ProcessOptionsTokens(catalog, nat_raises)
                e == ProcessEquityTokens(catalog, f.rows)
                combined == f.rows \o o.rows \o e.rows
                out == StoreTokensOutcome(token_master, combined, TRUE)
            IN /\ tokens_df' = catalog
               /\ futures_df' = f
               /\ options_df' = IF f.state = "None" THEN Unset ELSE o
               /\ equity_df' = IF f.state = "None" \/ o.state = "None" THEN Unset ELSE e
               /\ IF f.state = "None" \/ o.state = "None" \/ e.state = "None"
                  THEN /\ refresh_result' = "False"
                       /\ UNCHANGED <<token_master, tokens_data, store_calls, store_result>>
                  ELSE /\ tokens_data' = combined
                       /\ token_master' = out.rows
                       /\ store_result' = out.result
                       /\ store_calls' = store_calls + 1
                       /\ refresh_result' = out.result
    /\ old_master' = token_master
    /\ UNCHANGED <<max_tokens_per_request, cfg, running, now, db_now,
                   realtime_market_data, inserted, faults, atm_options>>
    /\ UNCHANGED <<batchVars, loopVars, cycleVars, refreshCheckVars, paceVars, openVars>>

InitRefresh ==
    /\ max_tokens_per_request = 1
    /\ cfg = DefaultConfig
    /\ running = TRUE
    /\ now = 0
    /\ db_now = 0
    /\ pc = "refresh"
    /\ token_master = SmallStore
    /\ realtime_market_data = {}
    /\ faults = 0
    /\ CycleIdle
    /\ LoopIdle
    /\ BatchIdle
    /\ StoreIdle
    /\ ResolverIdle
    /\ OpenIdle
    /\ PaceIdle
    /\ RefreshCheckIdle

SpecRefresh == InitRefresh /\ [][RefreshTokens]_vars

\* ------------------------------------------------------------------------
\* process_options_tokens on its own: option catalogs drawn from a bounded set
\* ------------------------------------------------------------------------
MaxStrikeRows == 4

\* option rows of the catalog: four call strikes of FOO at the near expiry, a
\* put at one of them, a single strike of BAR, and a FOO call at a later expiry
StrikePool ==
    {CatalogRow(61, Append(NameFoo, "CE"), NameFoo, "30JAN2025", 10000, OptionsStock, NfoSegment),
     CatalogRow(62, Append(NameFoo, "CE"), NameFoo, "30JAN2025", 15000, OptionsStock, NfoSegment),
     CatalogRow(63, Append(NameFoo, "CE"), NameFoo, "30JAN2025", 20000, OptionsStock, NfoSegment),
     CatalogRow(64, Append(NameFoo, "CE"), NameFoo, "30JAN2025", 26000, OptionsStock, NfoSegment),
     CatalogRow(65, Append(NameFoo, "PE"), NameFoo, "30JAN2025", 15000, OptionsStock, NfoSegment),
     CatalogRow(66, Append(NameBar, "CE"), NameBar, "30JAN2025", 10000, OptionsStock, NfoSegment),
     CatalogRow(67, Append(NameFoo, "CE"), NameFoo, "27FEB2025", 30000, OptionsStock, NfoSegment)}

\* one call of process_options_tokens on a fetched catalog
CallProcessOptionsTokens ==
    /\ pc = "options"
    /\ pc' = "options_done"
    /\ \E catalog \in SeqsUpTo(StrikePool, MaxStrikeRows), nat_raises \in BOOLEAN :
         /\ tokens_df' = catalog
         /\ options_df' = ProcessOptionsTokens(catalog, nat_raises)
    /\ UNCHANGED <<max_tokens_per_request, cfg, running, now, db_now, token_master,
                   realtime_market_data, faults, futures_df, equity_df, refresh_result,
                   atm_options>>
    /\ UNCHANGED <<batchVars, loopVars, cycleVars, storeVars, refreshCheckVars, paceVars, openVars>>

InitOptions ==
    /\ max_tokens_per_request = 1
    /\ cfg = DefaultConfig
    /\ running = TRUE
    /\ now = 0
    /\ db_now = 0
    /\ pc = "options"
    /\ token_master = <<>>
    /\ realtime_market_data = {}
    /\ faults = 0
    /\ CycleIdle
    /\ LoopIdle
    /\ BatchIdle
    /\ StoreIdle
    /\ ResolverIdle
    /\ OpenIdle
    /\ PaceIdle
    /\ RefreshCheckIdle

SpecOptions == InitOptions /\ [][CallProcessOptionsTokens]_vars

\* ------------------------------------------------------------------------
\* ATM Selector on its own: get_atm_options_tokens on bounded inputs
\* ------------------------------------------------------------------------
MaxFuturesQuotes == 2

\* two underlyings with strikes 1000 and 1100; one row has strike_distance 0
\* and one has none
AtmStore ==
    << TokenRow(1, "FUT", "ACC", "NFO", "FUTURES", Null, Null),
       TokenRow(5, "FUT", "NIFTY", "NFO", "FUTURES", Null, Null),
       TokenRow(2, "EQ", "ACC", "NSE", "EQUITY", 0, Null),
       TokenRow(8, "CE", "ACC", "NFO", "OPTIONS", 1000, 50),
       TokenRow(9, "CE", "ACC", "NFO", "OPTIONS", 1100, 50),
       TokenRow(10, "PE", "ACC", "NFO", "OPTIONS", 1000, 0),
       TokenRow(11, "PE", "NIFTY", "NFO", "OPTIONS", 1000, Null),
       TokenRow(12, "CE", "NIFTY", "NFO", "OPTIONS", 1100, Null) >>

\* one call get_atm_options_tokens(futures_data, strike_buffer, exact_atm_only)
CallGetAtmOptionsTokens ==
    /\ pc = "atm"
    /\ pc' = "atm_done"
    \* futures_data records: quotes of the two futures and of the equity token
    /\ \E fdata \in SeqsUpTo({[symbolToken |-> t, tradingSymbol |-> "FUT", ltp |-> p,
                                upperCircuit |-> p + 20] :
                                  t \in {1, 5, 2}, p \in {100, 110, 120, 1020}},
                              MaxFuturesQuotes) :
         /\ futures_data' = fdata
         /\ atm_options' = Frame(GetAtmOptionsTokens(token_master, fdata,
                                     cfg.strike_buffer, cfg.exact_atm_only))
    /\ UNCHANGED <<max_tokens_per_request, cfg, running, now, db_now, token_master,
                   realtime_market_data, faults, results, pending, calls, prev_calls,
                   tokens_df, futures_df, options_df, equity_df, refresh_result>>
    /\ UNCHANGED <<batchVars, loopVars, storeVars, refreshCheckVars, paceVars, openVars>>

InitAtm ==
    /\ max_tokens_per_request = 1
    /\ cfg \in {Config(TRUE, TRUE, TRUE, Null, Null, Null, TRUE, buf, exact, 60, TRUE,
                       "pipeline", "set") : buf \in {0, 1, 2}, exact \in BOOLEAN}
    /\ running = TRUE
    /\ now = MarketStart
    /\ db_now = 0
    /\ pc = "atm"
    /\ token_master \in {SmallStore, RichStore, AtmStore}
    /\ realtime_market_data = {}
    /\ faults = 0
    /\ CycleIdle
    /\ LoopIdle
    /\ BatchIdle
    /\ StoreIdle
    /\ ResolverIdle
    /\ OpenIdle
    /\ PaceIdle
    /\ RefreshCheckIdle

SpecAtm == InitAtm /\ [][CallGetAtmOptionsTokens]_vars

\* ------------------------------------------------------------------------
\* The refresh test on its own: TokenManager.needs_token_refresh
\* ------------------------------------------------------------------------
\* a datetime is a number of minutes: 1440 for each day before it plus the
\* minute of its day
Combine(date, minute) == date * 1440 + minute

\* the texts met as market.pre_market.start and what
\* `map(int, text.split(':'))` followed by time(hour, minute) makes of them;
\* a text that is not in the table makes one of the two raise
PreMarketFormats ==
    {[text |-> "09:00", minute |-> 540], [text |-> "08:30", minute |-> 510]}

ParsableTime(text) == \E f \in PreMarketFormats : f.text = text

ParseTime(text) == (CHOOSE f \in PreMarketFormats : f.text = text).minute

\* DBManager.get_latest_token_update_time: SELECT MAX(created_at); None when
\* the table is empty and when the query raises
GetLatestTokenUpdateTime(column, query_raises) ==
    IF query_raises \/ column = <<>> THEN Null
    ELSE CHOOSE m \in Range(column) : \A x \in Range(column) : x <= m

\* needs_token_refresh with `<=` in place of `<`
NeedsTokenRefresh_NotStrict(hard, latest_update, start_str, date) ==
    IF hard THEN TRUE
    ELSE IF latest_update = Null THEN TRUE
    ELSE IF ~ParsableTime(start_str) THEN TRUE
    ELSE latest_update <= Combine(date, ParseTime(start_str))

\* needs_token_refresh(hard_refresh), given what the query returned
NeedsTokenRefresh(hard, latest_update, start_str, date) ==
    IF hard THEN TRUE
    ELSE IF latest_update = Null THEN TRUE
    ELSE IF ~ParsableTime(start_str) THEN TRUE
    ELSE latest_update < Combine(date, ParseTime(start_str))

\* one call needs_token_refresh(hard_refresh)
CallNeedsTokenRefresh ==
    /\ pc = "needs"
    /\ pc' = "needs_done"
    /\ \E query_raises \in {r \in BOOLEAN : r => ~hard_refresh /\ faults < MaxFaults} :
         /\ needs_refresh' =
               IF NeedsTokenRefresh(hard_refresh,
                                    GetLatestTokenUpdateTime(created_at, query_raises),
                                    pre_market_start_str, current_date)
               THEN "True" ELSE "False"
         /\ faults' = faults + (IF query_raises THEN 1 ELSE 0)
    /\ UNCHANGED <<max_tokens_per_request, cfg, running, now, db_now, token_master,
                   realtime_market_data, hard_refresh, created_at,
                   pre_market_start_str, current_date>>
    /\ UNCHANGED <<batchVars, loopVars, cycleVars, storeVars, resolverVars, paceVars, openVars>>

InitNeeds ==
    /\ max_tokens_per_request = 1
    /\ cfg = DefaultConfig
    /\ running = TRUE
    /\ now = 0
    /\ db_now = 0
    /\ pc = "needs"
    /\ token_master \in {<<>>, SmallStore}
    /\ realtime_market_data = {}
    /\ faults = 0
    /\ CycleIdle
    /\ LoopIdle
    /\ BatchIdle
    /\ StoreIdle
    /\ ResolverIdle
    /\ OpenIdle
    /\ PaceIdle
    /\ hard_refresh \in BOOLEAN
    \* the instants at which store_tokens may have written the table
    /\ \E instant \in {Combine(0, 900), Combine(1, 509), Combine(1, 510), Combine(1, 539),
                        Combine(1, 540), Combine(1, 541), Combine(2, 600)} :
          created_at = [i \in DOMAIN token_master |-> instant]
    /\ pre_market_start_str \in {"09:00", "08:30", "09:00:00", "nine", NoneText}
    /\ current_date \in {1, 2}
    /\ needs_refresh = "none"

SpecNeeds == InitNeeds /\ [][CallNeedsTokenRefresh]_vars

\* ------------------------------------------------------------------------
\* The pace of the loop: cycles that take time
\* ------------------------------------------------------------------------
MaxElapsed == 2

\* a second passes while fetch_and_store_realtime_data runs, between
\* `start_time = time.time()` and `elapsed_time = time.time() - start_time`
ClockTick ==
    /\ pc \in {"cycle_start", "futures_pass", "collect", "second_pass", "cycle_return"}
    /\ now - start_time < MaxElapsed
    /\ now < MaxTime
    /\ now' = now + 1
    /\ db_now' = db_now + 1
    /\ UNCHANGED <<max_tokens_per_request, cfg, running, pc, token_master,
                   realtime_market_data, faults>>
    /\ UNCHANGED <<batchVars, resolverVars, storeVars, loopVars, cycleVars,
                   refreshCheckVars, paceVars, openVars>>

\* run_monitor entering its loop when the market opens
InitPace ==
    /\ cfg \in {c \in LoopConfigs : /\ c.entry = "monitor"
                                    /\ c.wait_for_market
                                    /\ c.trading_hours = "set"
                                    /\ c.include_futures
                                    /\ c.atm_only}
    /\ max_tokens_per_request = 2
    /\ running = TRUE
    /\ now = MarketStart
    /\ db_now = 0
    /\ pc = "loop_head"
    /\ token_master = SmallStore
    /\ realtime_market_data = {}
    /\ faults = 0
    /\ CycleIdle
    /\ LoopIdle
    /\ BatchIdle
    /\ StoreIdle
    /\ ResolverIdle
    /\ OpenIdle
    /\ RefreshCheckIdle
    /\ PaceIdle

NextPace ==
    \/ SetFlag
    \/ LoopHead
    \/ CycleStart
    \/ FetchFuturesBatch
    \/ CollectTokens
    \/ FetchBatch
    \/ AfterCycle
    \/ SleepCheck
    \/ SleepOneSecond
    \/ ClockTick

SpecPace == InitPace /\ [][NextPace]_vars

\* ------------------------------------------------------------------------
\* Opening the store: DBManager.__init__, _init_tables and
\* _handle_corrupted_database
\* ------------------------------------------------------------------------
MaxRecoveries == 2

\* __init__: duckdb.connect(self.db_path). A corrupt file may raise
\* SerializationException, which __init__ catches, or be found out only by a
\* later statement; any other exception leaves the constructor.
Connect ==
    /\ pc = "db_connect"
    /\ \/ /\ conn' = "open"
          /\ db_file' = IF db_file = "absent" THEN "good" ELSE db_file
          /\ pc' = "db_init"
       \/ /\ db_file = "corrupt"
          /\ pc' = "db_recover"
          /\ UNCHANGED <<conn, db_file>>
       \/ /\ pc' = "db_raised"
          /\ UNCHANGED <<conn, db_file>>
    /\ UNCHANGED <<max_tokens_per_request, cfg, running, now, db_now, token_master,
                   realtime_market_data, faults, recoveries>>
    /\ UNCHANGED <<batchVars, resolverVars, storeVars, loopVars, cycleVars,
                   refreshCheckVars, paceVars>>

\* _init_tables, called by __init__ or by _handle_corrupted_database: the
\* statements succeed and the call returns True (every caller then returns
\* too), or one raises, on a corrupt file or for any other reason, and the
\* except block calls _handle_corrupted_database. The bound stands for the
\* interpreter's recursion limit.
InitTables ==
    /\ pc = "db_init"
    /\ \/ /\ db_file = "good"
          /\ pc' = "db_ready"
       \/ /\ recoveries < MaxRecoveries
          /\ pc' = "db_recover"
    /\ UNCHANGED <<max_tokens_per_request, cfg, running, now, db_now, token_master,
                   realtime_market_data, faults>>
    /\ UNCHANGED <<batchVars, resolverVars, storeVars, loopVars, cycleVars,
                   refreshCheckVars, paceVars, openVars>>

\* _handle_corrupted_database up to its call of _init_tables: close the
\* connection, remove the file, connect again. When the connect raises, the
\* except block re-raises and the exception leaves the constructor.
HandleCorruptedDatabase ==
    /\ pc = "db_recover"
    /\ recoveries' = recoveries + 1
    /\ token_master' = <<>>
    /\ realtime_market_data' = {}
    /\ \/ /\ db_file' = "good"
          /\ conn' = "open"
          /\ pc' = "db_init"
       \/ /\ db_file' = "absent"
          /\ conn' = IF conn = "open" THEN "closed" ELSE conn
          /\ pc' = "db_raised"
    /\ UNCHANGED <<max_tokens_per_request, cfg, running, now, db_now, faults>>
    /\ UNCHANGED <<batchVars, resolverVars, storeVars, loopVars, cycleVars,
                   refreshCheckVars, paceVars>>

\* DBManager() on a path with no file, a good file or a corrupt file
InitOpen ==
    /\ max_tokens_per_request = 1
    /\ cfg = DefaultConfig
    /\ running = TRUE
    /\ now = 0
    /\ db_now = 0
    /\ pc = "db_connect"
    /\ db_file \in {"absent", "good", "corrupt"}
    /\ token_master \in (IF db_file = "absent" THEN {<<>>}
                         ELSE {<<>>, SubSeq(SmallStore, 1, 2), SmallStore, RichStore})
    /\ realtime_market_data \in
          (IF db_file = "absent" THEN {{}}
           ELSE {{}} \cup {{QuoteRow(q, 0)} : q \in QuoteRecords}
                     \cup {{QuoteRow(q, 0) : q \in QuoteRecords}})
    /\ conn = "none"
    /\ recoveries = 0
    /\ faults = 0
    /\ CycleIdle
    /\ LoopIdle
    /\ BatchIdle
    /\ StoreIdle
    /\ ResolverIdle
    /\ RefreshCheckIdle
    /\ PaceIdle

NextOpen ==
    \/ Connect
    \/ InitTables
    \/ HandleCorruptedDatabase

SpecOpen == InitOpen /\ [][NextOpen]_vars

\* ------------------------------------------------------------------------
\* Claims about the batch planner
\* ------------------------------------------------------------------------

\* C1: every batch returned by batch_tokens carries at most
\* max_tokens_per_request tokens, summed over its exchange segments.
C1_BatchWithinLimit ==
    bt_pc = "done" =>
        \A b \in DOMAIN batches : TokenCount(batches[b]) <= max_tokens_per_request

C1_Witness ==
    /\ bt_pc = "done"
    /\ Len(batches) >= 2
    /\ TokenCount(exchange_tokens) > max_tokens_per_request
    /\ \E b \in DOMAIN batches : Len(batches[b]) = 2

RECURSIVE ConcatSegment(_, _)
ConcatSegment(bs, exchange) ==
    IF bs = <<>> THEN <<>>
    ELSE DictGetOrEmpty(Head(bs), exchange) \o ConcatSegment(Tail(bs), exchange)

\* C2: for each exchange segment, concatenating that segment's lists over
\* the batches in batch order gives back the segment's input token list.
C2_ConcatReproducesInput ==
    bt_pc = "done" =>
        \A e \in Exchanges :
            ConcatSegment(batches, e) = DictGetOrEmpty(exchange_tokens, e)

C2_Witness ==
    /\ bt_pc = "done"
    /\ Len(batches) >= 2
    /\ Len(exchange_tokens) = 2
    /\ \E i \in DOMAIN exchange_tokens :
          /\ Len(exchange_tokens[i].tokens) > max_tokens_per_request
          /\ Range(exchange_tokens[i].tokens) = TokenIds

\* ------------------------------------------------------------------------
\* Claims about the acquisition loop
\* ------------------------------------------------------------------------

\* C3: the loop ends (stopped, or ended by an exception) only after the
\* shutdown flag has been set by a signal.
C3_StopsOnlyOnSignal ==
    pc \in {"stopped", "crashed"} => ~running

C5_NoCallAfterStop ==
    \A i \in DOMAIN calls :
        (i > 1 /\ ~calls[i - 1].after_stop) => ~calls[i].after_stop

\* C6: an iteration whose market-hours check is false makes no provider call
\* and no Quote Store write, and the loop comes back to the check with the
\* flag still up only after refresh_interval one-second sleeps.
C6_ClosedMarketSkipsFetch ==
    [][/\ (/\ pc = "loop_head"
           /\ running
           /\ cfg.trading_hours = "set"
           /\ ~(MarketStart <= now /\ now <= MarketEnd))
          => /\ pc' \in {"loop_head", "sleep_check"}
             /\ realtime_market_data' = realtime_market_data
             /\ calls' = calls
       /\ pc \in {"sleep_check", "sleeping"}
          => /\ realtime_market_data' = realtime_market_data
             /\ calls' = calls
       /\ (pc = "sleep_check" /\ pc' = "loop_head" /\ running)
          => sleep_i = cfg.refresh_interval]_vars

C6_Witness ==
    /\ pc = "loop_head"
    /\ running
    /\ now - cfg.refresh_interval > MarketEnd
    /\ sleep_i = cfg.refresh_interval
    /\ realtime_market_data # {}

RequestedTokens(cs) == UNION {Range(cs[i].tokens) : i \in DOMAIN cs}

TokenTypeOf(tm, token) ==
    tm[CHOOSE i \in DOMAIN tm : tm[i].token = token].token_type

RECURSIVE RowTokens(_)
RowTokens(rows) ==
    IF rows = <<>> THEN {} ELSE {Head(rows).token} \cup RowTokens(Tail(rows))

\* the tokens a cycle has to request, given the futures quotes it obtained
PlannedTokens ==
    (IF cfg.include_futures
     THEN RowTokens(GetFuturesTokens(token_master, cfg.futures_limit)) ELSE {})
    \cup (LET equity == IF cfg.include_equity
                        THEN GetEquityTokens(token_master, cfg.equity_limit) ELSE <<>>
              options ==
                  IF ~cfg.include_options THEN <<>>
                  ELSE IF cfg.atm_only /\ futures_data # <<>>
                       THEN GetAtmOptionsTokens(token_master, futures_data,
                                                cfg.strike_buffer, cfg.exact_atm_only)
                       ELSE GetOptionsTokens(token_master, cfg.options_limit)
          IN RowTokens(equity) \cup RowTokens(options))

RECURSIVE AllCallTokens(_)
AllCallTokens(cs) ==
    IF cs = <<>> THEN <<>> ELSE Head(cs).tokens \o AllCallTokens(Tail(cs))

\* C8: within one cycle no token is sent to the provider twice.
C8_NoTokenTwice ==
    LET sent == AllCallTokens(calls)
    IN \A i, j \in DOMAIN sent : i # j => sent[i] # sent[j]

C8_Witness ==
    /\ pc = "cycle_return"
    /\ cfg.include_equity /\ cfg.include_futures /\ cfg.include_options
    /\ cfg.exact_atm_only
    /\ Len(calls) >= 3
    /\ \E i, j \in DOMAIN calls :
          /\ \E t \in Range(calls[i].tokens) : TokenTypeOf(token_master, t) = "FUTURES"
          /\ \E t \in Range(calls[j].tokens) : TokenTypeOf(token_master, t) = "OPTIONS"

\* ------------------------------------------------------------------------
\* Claims about the stores
\* ------------------------------------------------------------------------
RECURSIVE RecordsOf(_, _)
RecordsOf(records, token) ==
    IF records = <<>> THEN <<>>
    ELSE (IF Head(records).symbolToken = token THEN <<Head(records)>> ELSE <<>>)
         \o RecordsOf(Tail(records), token)

\* C9: a snapshot persisted twice within a cycle leaves exactly one row for
\* its token, holding the snapshot's values.
C9_DuplicateLeavesOneRow ==
    \A t \in TokenIds :
        LET delivered == RecordsOf(inserted, t)
            rows == {r \in realtime_market_data : r.symbol_token = t}
        IN (Len(delivered) >= 2 /\ \A i \in DOMAIN delivered : delivered[i] = delivered[1])
           => /\ Cardinality(rows) = 1
              /\ \A r \in rows : r.ltp = delivered[1].ltp

\* C10: after store_tokens has returned, True or False, token_master holds
\* either exactly the rows it held before the call or exactly the new rows.
C10_ReplacedAtomically ==
    (pc = "token_store" /\ store_result # "none")
    => token_master \in {old_master, tokens_data}

\* ------------------------------------------------------------------------
\* Claims about the Instrument Universe Resolver
\* ------------------------------------------------------------------------

\* C11: when the processing of a cohort (futures, options or equity) returns
\* None during a refresh, process_and_store_tokens returns False, store_tokens
\* is not called and token_master is as it was before the refresh.
C11_CohortFailureKeepsStore ==
    (/\ pc = "refreshed"
     /\ \/ futures_df.state = "None"
        \/ options_df.state = "None"
        \/ equity_df.state = "None")
    => /\ refresh_result = "False"
       /\ store_calls = 0
       /\ token_master = old_master

C11_Witness ==
    /\ pc = "refreshed"
    /\ futures_df.state = "frame"
    /\ futures_df.rows # <<>>
    /\ options_df.state = "None"
    /\ \E i \in DOMAIN tokens_df : tokens_df[i].exch_seg = NseSegment
    /\ old_master # <<>>
    /\ token_master = old_master

\* the indices of the futures-eligible catalog rows, and of those with a date
FuturesEligible == {i \in DOMAIN tokens_df : /\ tokens_df[i].instrumenttype = "FUTSTK"
                                              /\ tokens_df[i].exch_seg = "NFO"}

FuturesDated == {i \in FuturesEligible : tokens_df[i].expiry # ""}

\* the FUTURES rows of the Token Store after a refresh that stored its result
StoredFutures ==
    {token_master[i] : i \in {j \in DOMAIN token_master :
                                 token_master[j].token_type = "FUTURES"}}

RefreshStored == pc = "refreshed" /\ refresh_result = "True" /\ store_calls = 1

\* C12 as stated: every underlying with a futures-eligible catalog row has
\* exactly one FUTURES row in the resolved set, at that underlying's nearest
\* expiry.
C12_OneFuturePerUnderlying ==
    RefreshStored =>
        \A i \in FuturesEligible :
            LET name == tokens_df[i].name
                own == {j \in FuturesDated : tokens_df[j].name = name}
                rows == {r \in StoredFutures : r.name = name}
            IN /\ Cardinality(rows) = 1
               /\ \A r \in rows :
                     \E j \in own :
                        /\ r.token = tokens_df[j].token
                        /\ \A k \in own : ToDatetime(tokens_df[j].expiry)
                                             <= ToDatetime(tokens_df[k].expiry)

\* C12, amended: the FUTURES rows of the resolved set are exactly the
\* futures-eligible catalog rows whose expiry is the least expiry over all
\* futures-eligible rows, each with that expiry in db_date format; so an
\* underlying has as many FUTURES rows as it has catalog rows at that
\* expiry, and none when all its rows expire later.
C12_NearestExpiryCohort ==
    RefreshStored =>
        LET least == SetMin({ToDatetime(tokens_df[i].expiry) : i \in FuturesDated})
            cohort == {i \in FuturesDated : ToDatetime(tokens_df[i].expiry) = least}
        IN /\ {r.token : r \in StoredFutures} = {tokens_df[i].token : i \in cohort}
           /\ \A r \in StoredFutures :
                 /\ r.expiry = Strftime(least)
                 /\ \E i \in cohort : tokens_df[i].token = r.token
                                      /\ tokens_df[i].name = r.name
           /\ \A i \in FuturesEligible :
                 Cardinality({r \in StoredFutures : r.name = tokens_df[i].name})
                    = Cardinality({j \in cohort : tokens_df[j].name = tokens_df[i].name})

C12_Witness ==
    /\ RefreshStored
    /\ StoredFutures # {}
    /\ \E i \in FuturesDated : \A r \in StoredFutures : r.name # tokens_df[i].name

\* C13: when the catalog has a futures-eligible row whose expiry parses,
\* process_futures_tokens returns a non-empty cohort, every row of it has the
\* least parsed expiry of the futures-eligible rows, and none has a null
\* expiry.
C13_FuturesCohortAtMinExpiry ==
    (/\ pc = "refreshed"
     /\ \E i \in FuturesDated : Parsable(tokens_df[i].expiry))
    => /\ futures_df.state = "frame"
       /\ futures_df.rows # <<>>
       /\ \A k \in DOMAIN futures_df.rows :
             /\ futures_df.rows[k].expiry \notin {"", "None"}
             /\ \E i \in FuturesDated :
                   /\ Parsable(tokens_df[i].expiry)
                   /\ futures_df.rows[k].expiry = Strftime(ToDatetime(tokens_df[i].expiry))
                   /\ \A j \in FuturesDated :
                         Parsable(tokens_df[j].expiry)
                         => ToDatetime(tokens_df[i].expiry) <= ToDatetime(tokens_df[j].expiry)

\* the EQUITY rows of the Token Store
StoredEquity ==
    {token_master[i] : i \in {j \in DOMAIN token_master :
                                 token_master[j].token_type = "EQUITY"}}

\* C14: after a refresh, the EQUITY rows of the resolved set are exactly the
\* NSE catalog rows whose symbol is `{name}-EQ` for a name of the FUTURES
\* cohort, and the futures_token of each is the token of a FUTURES-cohort row
\* of that name.
C14_EquityLinkedToFutures ==
    RefreshStored =>
        /\ {r.token : r \in StoredEquity}
              = {tokens_df[i].token :
                    i \in {j \in DOMAIN tokens_df :
                              /\ tokens_df[j].exch_seg = "NSE"
                              /\ \E f \in StoredFutures :
                                    tokens_df[j].symbol = f.name \o <<"-EQ">>}}
        /\ \A r \in StoredEquity :
              \E f \in StoredFutures : r.symbol = f.name \o <<"-EQ">>
                                       /\ r.futures_token = f.token

\* the distinct strikes of one underlying in the options cohort
CohortStrikes(name) ==
    {options_df.rows[j].strike :
        j \in {k \in DOMAIN options_df.rows : options_df.rows[k].name = name}}

\* how many pairs of adjacent strikes of a set are d apart
GapCount(strikes, d) ==
    Cardinality({a \in strikes :
                    /\ a + d \in strikes
                    /\ \A c \in strikes : ~(a < c /\ c < a + d)})

\* C15: every row of the options cohort carries, as strike_distance, a most
\* frequent difference between adjacent distinct strikes of its underlying
\* when the underlying has at least two distinct strikes, and null otherwise.
C15_StrikeDistanceIsMode ==
    (pc = "options_done" /\ options_df.state = "frame")
    => \A k \in DOMAIN options_df.rows :
          LET strikes == CohortStrikes(options_df.rows[k].name)
              sd == options_df.rows[k].strike_distance
          IN IF Cardinality(strikes) >= 2
             THEN /\ sd > 0
                  /\ GapCount(strikes, sd) >= 1
                  /\ \A a, b \in strikes : a < b => GapCount(strikes, b - a) <= GapCount(strikes, sd)
             ELSE sd = Null

C15_Witness ==
    /\ pc = "options_done"
    /\ options_df.state = "frame"
    /\ CohortStrikes(NameFoo) = {100, 150, 200, 260}
    /\ \A k \in DOMAIN options_df.rows : options_df.rows[k].strike_distance = 50
    /\ \E i \in DOMAIN tokens_df : tokens_df[i].strike = 26000

\* ------------------------------------------------------------------------
\* Claims about the ATM Selector
\* ------------------------------------------------------------------------
\* the futures_data records that quote the future of an underlying
QuotesOf(name) ==
    {i \in DOMAIN futures_data :
        \E k \in DOMAIN token_master :
           /\ token_master[k].token = futures_data[i].symbolToken
           /\ token_master[k].token_type = "FUTURES"
           /\ token_master[k].name = name}

\* the futures price of an underlying: the ltp of its last quote
FuturesPriceOf(name) ==
    futures_data[CHOOSE i \in QuotesOf(name) : \A j \in QuotesOf(name) : j <= i].ltp

StoredOptions ==
    {token_master[i] : i \in {j \in DOMAIN token_master :
                                 token_master[j].token_type = "OPTIONS"}}

\* C16: in exact mode the selector returns, for an underlying with a futures
\* price, at most one call and one put, each a row of least
\* abs(strike - price) among the rows of its underlying and option type, and
\* no row for an underlying without a futures price.
C16_ExactAtmClosestStrikes ==
    (pc = "atm_done" /\ cfg.exact_atm_only)
    => \A name \in Range(NameOrder) :
          LET picked == {i \in DOMAIN atm_options.rows : atm_options.rows[i].name = name}
          IN IF QuotesOf(name) = {} THEN picked = {}
             ELSE /\ Cardinality(picked) <= 2
                  /\ \A i, j \in picked :
                        i # j => atm_options.rows[i].symbol # atm_options.rows[j].symbol
                  /\ \A i \in picked :
                        /\ atm_options.rows[i] \in StoredOptions
                        /\ atm_options.rows[i].symbol \in {"CE", "PE"}
                        /\ \A o \in StoredOptions :
                              (o.name = name /\ o.symbol = atm_options.rows[i].symbol)
                              => Abs(atm_options.rows[i].strike - FuturesPriceOf(name))
                                    <= Abs(o.strike - FuturesPriceOf(name))

C16_Witness ==
    /\ pc = "atm_done"
    /\ cfg.exact_atm_only
    /\ Len(atm_options.rows) = 2
    /\ \A i \in DOMAIN atm_options.rows : atm_options.rows[i].name = "ACC"
    /\ QuotesOf("NIFTY") = {}
    /\ \E o \in StoredOptions : o.name = "NIFTY"
    /\ \E o \in StoredOptions : o.name = "ACC" /\ o \notin Range(atm_options.rows)

\* C17: in buffered mode the selector keeps an option row iff its underlying
\* has a futures price and abs(price - strike) <= strike_buffer *
\* strike_distance, with the fallback distance when strike_distance is null
\* or zero.
C17_BufferedAtmWithinBuffer ==
    (pc = "atm_done" /\ ~cfg.exact_atm_only)
    => LET Kept(o) ==
               /\ QuotesOf(o.name) # {}
               /\ Abs(FuturesPriceOf(o.name) - o.strike)
                     <= cfg.strike_buffer
                        * (IF o.strike_distance \in {Null, 0}
                           THEN (IF o.name = "NIFTY" THEN 50
                                 ELSE IF o.name = "BANKNIFTY" THEN 100 ELSE 5)
                           ELSE o.strike_distance)
       IN Range(atm_options.rows) = {o \in StoredOptions : Kept(o)}

C17_Witness ==
    /\ pc = "atm_done"
    /\ ~cfg.exact_atm_only
    /\ cfg.strike_buffer = 1
    /\ QuotesOf("ACC") # {}
    /\ FuturesPriceOf("ACC") = 1020
    /\ \E o \in Range(atm_options.rows) :
          o.name = "ACC" /\ o.strike = 1000 /\ o.strike_distance = 50
    /\ \E o \in StoredOptions :
          /\ o.name = "ACC" /\ o.strike = 1100 /\ o.strike_distance = 50
          /\ o \notin Range(atm_options.rows)

\* ------------------------------------------------------------------------
\* Claims about the options of a cycle
\* ------------------------------------------------------------------------

\* C18: in a cycle with include_options and atm_only, an option token is sent
\* to the provider only if the cycle has obtained a futures quote for its
\* underlying.
C18_AtmOnlyNeedsFuturesPrice ==
    (cfg.include_options /\ cfg.atm_only)
    => \A i \in DOMAIN calls :
          \A t \in Range(calls[i].tokens) :
             TokenTypeOf(token_master, t) = "OPTIONS"
             => QuotesOf(token_master[CHOOSE k \in DOMAIN token_master :
                                         token_master[k].token = t].name) # {}

\* C19: every EQUITY row that a refresh stores in the Token Store has a null
\* strike and a null expiry.
C19_EquityStrikeAndExpiryNull ==
    RefreshStored => \A r \in StoredEquity : r.strike = Null /\ r.expiry = "None"

\* ------------------------------------------------------------------------
\* Claims about the Quote Store upsert
\* ------------------------------------------------------------------------

\* C20: a row that a call of store_realtime_market_data writes or rewrites
\* holds, in every value column, the values of one of the snapshots of that
\* call (an upsert that hits an existing row leaves no value of the older
\* snapshot behind), and every key present before the call is still present.
C20_UpsertTakesAllValues ==
    [][/\ \A r \in realtime_market_data' \ realtime_market_data :
             \E i \in (Len(inserted) + 1)..Len(inserted') :
                r = QuoteRow(inserted'[i], r.timestamp)
       /\ \A r \in realtime_market_data :
             \E q \in realtime_market_data' :
                q.symbol_token = r.symbol_token /\ q.timestamp = r.timestamp]_vars

\* ------------------------------------------------------------------------
\* Claims about the refresh test
\* ------------------------------------------------------------------------

\* C21: needs_token_refresh returns True if and only if hard_refresh is set,
\* or the Token Store holds no tokens, or the latest token update is earlier
\* than the pre-market start of the current day, or the check met an error
\* (the query raised, or the configured start time could not be read).
C21_RefreshIffStaleOrForced ==
    pc = "needs_done" =>
       (needs_refresh = "True" <=>
           \/ hard_refresh
           \/ token_master = <<>>
           \/ faults > 0
           \/ ~ParsableTime(pre_market_start_str)
           \/ \A i \in DOMAIN created_at :
                 created_at[i] < Combine(current_date, ParseTime(pre_market_start_str)))

C21_Witness ==
    /\ pc = "needs_done"
    /\ ~hard_refresh
    /\ token_master # <<>>
    /\ faults = 0
    /\ ParsableTime(pre_market_start_str)
    /\ created_at[1] = Combine(current_date, ParseTime(pre_market_start_str))
    /\ needs_refresh = "False"

\* C22: a cohort of a refresh is missing (None) only if the catalog has no
\* eligible row for it or none of its eligible rows has an expiry that
\* parses; one row with an unparsable expiry does not fail the cohort.
C22_UnparsableRowIsDropped ==
    (pc = "refreshed" /\ tokens_df # <<>>) =>
       /\ futures_df.state = "None" =>
             \A i \in DOMAIN EligibleRows(tokens_df, FuturesStock) :
                ~Parsable(EligibleRows(tokens_df, FuturesStock)[i].expiry)
       /\ options_df.state = "None" =>
             \A i \in DOMAIN EligibleRows(tokens_df, OptionsStock) :
                ~Parsable(EligibleRows(tokens_df, OptionsStock)[i].expiry)

\* ------------------------------------------------------------------------
\* Claims about the summary of a cycle
\* ------------------------------------------------------------------------
\* C23: when fetch_and_store_realtime_data returns, the failures count of
\* its summary is at least the number of provider calls that failed in the
\* cycle.
C23_FailuresCountFailedCalls ==
    pc = "cycle_return" =>
       results.failures >=
          Cardinality({i \in DOMAIN calls : calls[i].kind \in {"none", "raise"}})

\* ------------------------------------------------------------------------
\* Claims about the pace of the loop
\* ------------------------------------------------------------------------
\* C24: when the loop comes back to its head after an iteration that ran a
\* cycle and a sleep that no signal cut short, the time since that cycle's
\* start is the refresh interval, or the cycle's elapsed time if that is
\* longer: the sleep was max(0, refresh_interval - elapsed).
C24_SleepsRemainder ==
    (/\ pc = "loop_head"
     /\ running
     /\ iterations >= 1
     /\ cycle_iteration = iterations)
    => now - start_time = (IF cfg.refresh_interval >= elapsed_time
                           THEN cfg.refresh_interval ELSE elapsed_time)

\* ------------------------------------------------------------------------
\* Claims about the rate limiter
\* ------------------------------------------------------------------------

\* C25: the provider calls of a cycle are issued one after the other, and
\* each call but the first is issued at least rate_limit_delay after the
\* call before it.
C25_DelayBetweenCalls ==
    \A i \in DOMAIN calls :
       i > 1 => calls[i].at - calls[i - 1].at >= RateLimitDelay

\* ------------------------------------------------------------------------
\* Claims about the wait for the market open
\* ------------------------------------------------------------------------

\* C26: step 3 of run_pipeline with wait_for_market enabled goes on to the
\* monitoring step at once only if the market is open at that moment;
\* otherwise it enters the wait for the market open.
C26_WaitsUnlessOpen ==
    [][(/\ pc = "step3"
        /\ cfg.wait_for_market
        /\ cfg.trading_hours = "set"
        /\ pc' # pc)
       => (IF IsMarketHours(now) THEN pc' = "step4" ELSE pc' = "wait_check")]_vars

\* ------------------------------------------------------------------------
\* Claims about recovery
\* ------------------------------------------------------------------------

\* C27: when a write to the Token Store has failed (the DELETE ran, the
\* INSERT raised and store_tokens returned False), the recovery path has
\* run: the store's file was removed and rebuilt from the schema.
C27_WriteFailureTriggersRecovery ==
    (/\ pc = "token_store"
     /\ store_result = "False"
     /\ old_master # <<>>
     /\ token_master = <<>>)
    => recoveries >= 1

\* C29: constructing a DBManager removes and recreates the database file at
\* most once; when table initialization fails again after the recreation,
\* the constructor does not recover a second time.
C29_AtMostOneRecovery ==
    recoveries <= 1

\* ------------------------------------------------------------------------
\* Claims about the atomicity of a batch write
\* ------------------------------------------------------------------------

\* C28: a call of store_realtime_market_data that returns False has written
\* none of its records: the Quote Store is as it was before the call.
C28_FailedStoreWritesNothing ==
    [][(store_calls' = store_calls + 1 /\ store_result' = "False")
       => realtime_market_data' = realtime_market_data]_vars

\* C30: on every return of fetch_and_store_realtime_data the summary has
\* total = success + failures.
C30_TotalIsSuccessPlusFailures ==
    pc = "cycle_return" => results.total = results.success + results.failures

====
